---- MODULE Spec2Model ----
(***************************************************************************)
(* Batch Synchronization Coordinator of ComfyUI-Purz' Interactive Image    *)
(* Filter: process_interactive_filter (src/interactive_filters.py) and     *)
(* InteractiveImageFilter.execute (src/interactive_filters_v3.py) run on   *)
(* the host's execution thread; the aiohttp route set_rendered_batch runs  *)
(* on the server's event-loop thread.  Both touch the module-level         *)
(* dictionaries PURZ_BATCH_ID, PURZ_BATCH_PENDING, PURZ_BATCH_READY and    *)
(* PURZ_RENDERED_IMAGES without any lock, so the invoking thread is        *)
(* modelled statement by statement (one action per access to the shared    *)
(* dictionaries) and the route handler, which has no await after reading   *)
(* the request body, as one action.                                        *)
(***************************************************************************)
EXTENDS Integers, Sequences, FiniteSets, TLC

\* ---------------------------------------------------------------- bounds
\* Largest input batch (image.shape[0]) and longest accumulated frame list.
MaxBatch == 3
\* Most frames one delivered chunk carries.
MaxChunkFrames == 2
\* Invocations of the node function in one behaviour.
MaxInvocations == 2
\* Polls of the wait loop before the ceiling elapses, scaled down from the
\* 3001 polls the floating-point loop of the source makes (see SpecWait).
MaxPolls == 2
\* Largest chunk_index a delivery carries.
MaxChunkIndex == 1

\* ------------------------------------------------------------ value sets
Nodes == {"n1", "n2"}
\* The node the invocations of Spec run on.
MainNodes == {"n1"}
\* node_id is None when the host passes no unique_id.
NoNode == "None"
Threads == {"t1", "t2"}
\* The thread the invocations of Spec and SpecWait run on.
MainThreads == {"t1"}
\* random.randint(0, 99999): one value, the worst case for telling two batch
\* ids apart, in which the salt never does.
Salts == {0}
\* A frame is a base64 PNG string: one that decodes, or one that does not.
Frames == {"png", "bad"}
ChunkIndexes == 0..MaxChunkIndex

RECURSIVE SeqsUpTo(_, _)
SeqsUpTo(S, n) ==
    IF n = 0 THEN {<<>>}
    ELSE LET shorter == SeqsUpTo(S, n - 1)
         IN  shorter \cup {Append(s, x) : s \in {q \in shorter : Len(q) = n - 1}, x \in S}

ChunkFrames == SeqsUpTo(Frames, MaxChunkFrames)

\* dict.get(node_id, "") of a missing key; also a request without batch_id.
NoId == <<>>
\* A dictionary slot of PURZ_RENDERED_IMAGES: missing key, None, or a list.
Absent == [st |-> "absent", fr |-> <<>>]
None == [st |-> "none", fr |-> <<>>]
List(fr) == [st |-> "list", fr |-> fr]

VARIABLES
    HAS_SERVER,            \* server components importable (routes registered)
    PURZ_BATCH_ID,         \* node -> batch id, NoId when the key is missing
    PURZ_BATCH_PENDING,    \* node -> batch size, 0 when the key is missing
    PURZ_BATCH_READY,      \* node -> "absent" | "false" | "true"
    PURZ_RENDERED_IMAGES,  \* node -> Absent | None | List(frames)
    clock,                 \* int(time.time() * 1000), in sleeps elapsed
    pc,                    \* thread -> the source line it is about to run
    node_id,               \* thread -> node of the invocation in flight
    batch_size,            \* thread -> image.shape[0]
    batch_id,              \* thread -> local batch_id
    waited,                \* thread -> polls slept so far
    rendered_frames,       \* thread -> local rendered_frames (the object's content)
    alias,                 \* thread -> local rendered_frames is the dictionary's list object
    output_image,          \* thread -> [kind, n]: the input batch or n decoded frames
    invocations,           \* invocations started so far
    recorded,              \* node -> batch ids written to PURZ_BATCH_ID so far
    entered,               \* node -> invocations that entered the wait branch
    track,                 \* node -> order and concatenation of the chunks accepted since the reset
    loop_exit,             \* thread -> why the wait loop ended: "-" | "ready" | "ceiling"
    outcome,               \* thread -> the branch of lines 690-721 the invocation took
    final_seen,            \* node -> a final chunk was accepted since ready was last cleared
    saw_final,             \* thread -> final_seen of its node when line 690 ran
    fwaited,               \* the float "waited" of lines 678-682, bit for bit (SpecWait)
    polls,                 \* sleeps of the wait loop so far (SpecWait)
    PURZ_FILTER_LAYERS,    \* node -> stored layer stack, NoLayers when the key is missing
    reply,                 \* the last JSON response of get_batch_pending
    request,               \* the request set_rendered_batch is handling, and the line it is at
    frames_by,             \* node -> for each frame of the node's list, the batch id of its chunk
    ready_by,              \* node -> the batch id of the chunk that last set ready to True
    call,                  \* the filter function under evaluation and its arguments
    result                 \* what that call returned

vars == <<HAS_SERVER, PURZ_BATCH_ID, PURZ_BATCH_PENDING, PURZ_BATCH_READY,
          PURZ_RENDERED_IMAGES, clock, pc, node_id, batch_size, batch_id,
          waited, rendered_frames, alias, output_image, invocations,
          recorded, entered, track, loop_exit, outcome, final_seen, saw_final,
          fwaited, polls, PURZ_FILTER_LAYERS, reply, request, frames_by, ready_by,
          call, result>>

shared == <<PURZ_BATCH_ID, PURZ_BATCH_PENDING, PURZ_BATCH_READY, PURZ_RENDERED_IMAGES>>
locals == <<node_id, batch_size, batch_id, waited, rendered_frames, alias,
            output_image>>
ghosts == <<recorded, entered, track, loop_exit, outcome>>
hist == <<final_seen, saw_final>>
\* Variables of the arithmetic of the wait loop alone (SpecWait).
aux == <<fwaited, polls>>
\* State of the other routes (set_filter_layers, get_batch_pending).
\* The handler set_rendered_batch taken statement by statement (SpecSteps).
steps == <<request, frames_by, ready_by>>
ext == <<PURZ_FILTER_LAYERS, reply, steps>>
\* Variables of the filter functions evaluated on their own.
pure == <<call, result>>

\* The float 0.0 (see the arithmetic of the wait loop below).
FZero == <<0, 0, 0, 0, 0>>

\* History of the chunks accepted for a node since line 659 reset its slot,
\* kept while the invocation waits (until it leaves line 690 or 691):
\* st = "none" (no chunk yet), "open" (chunks of the current batch id arrived
\* in index order 0, 1, ..., none final yet), "final" (in order, the last one
\* final), "bad" (anything else, or no invocation waiting); cat = their
\* frames concatenated.
NoTrack == [st |-> "none", next |-> 0, cat |-> <<>>]
BadTrack == [st |-> "bad", next |-> 0, cat |-> <<>>]

\* PURZ_FILTER_LAYERS.get(node_id) of a missing key.
NoLayers == [st |-> "absent", layers |-> <<>>]
\* No request to get_batch_pending answered yet.
NoReply == [node |-> NoNode, pending |-> FALSE, batch_size |-> 0]
\* set_rendered_batch is handling no request.
NoRequest == [pc |-> "-", node |-> NoNode, batch_id |-> NoId, frames |-> <<>>,
              chunk_index |-> 0, is_final |-> FALSE]
\* No filter function under evaluation.
NoCall == [fn |-> "-", img |-> <<>>, layers |-> <<>>, mask |-> <<>>, other |-> <<>>,
           same |-> FALSE]
NoResult == [fn |-> "-", out |-> <<>>, again |-> <<>>]

InputBatch(n) == [kind |-> "input", n |-> n]
DecodedBatch(n) == [kind |-> "decoded", n |-> n]

\* Everything but the stored layer stacks.
InitRecords ==
    /\ HAS_SERVER \in BOOLEAN
    /\ PURZ_BATCH_ID = [n \in Nodes |-> NoId]
    /\ PURZ_BATCH_PENDING = [n \in Nodes |-> 0]
    /\ PURZ_BATCH_READY = [n \in Nodes |-> "absent"]
    /\ PURZ_RENDERED_IMAGES = [n \in Nodes |-> Absent]
    /\ clock = 0
    /\ pc = [t \in Threads |-> "idle"]
    /\ node_id = [t \in Threads |-> NoNode]
    /\ batch_size = [t \in Threads |-> 0]
    /\ batch_id = [t \in Threads |-> NoId]
    /\ waited = [t \in Threads |-> 0]
    /\ rendered_frames = [t \in Threads |-> Absent]
    /\ alias = [t \in Threads |-> FALSE]
    /\ output_image = [t \in Threads |-> InputBatch(0)]
    /\ invocations = 0
    /\ recorded = [n \in Nodes |-> {}]
    /\ entered = [n \in Nodes |-> 0]
    /\ track = [n \in Nodes |-> BadTrack]
    /\ loop_exit = [t \in Threads |-> "-"]
    /\ outcome = [t \in Threads |-> "-"]
    /\ final_seen = [n \in Nodes |-> FALSE]
    /\ saw_final = [t \in Threads |-> FALSE]
    /\ fwaited = FZero
    /\ polls = 0
    /\ reply = NoReply
    /\ request = NoRequest
    /\ frames_by = [n \in Nodes |-> <<>>]
    /\ ready_by = [n \in Nodes |-> NoId]
    /\ call = NoCall
    /\ result = NoResult

Init ==
    /\ InitRecords
    /\ PURZ_FILTER_LAYERS = [n \in Nodes |-> NoLayers]

\* ------------------------------------------------- the invoking thread
\* A batch id that leaves the timestamp out.
NewBatchId_NoClock(nid, now, salt) == <<nid, 0, salt>>

\* Line 653: f"{node_id}_{int(time.time() * 1000)}_{random.randint(0, 99999)}".
NewBatchId(nid, now, salt) == <<nid, now, salt>>

\* Line 651: node_id and batch_size >= 1 and HAS_SERVER.
WaitBranch(nid, bs) == nid # NoNode /\ bs >= 1 /\ HAS_SERVER

\* Lines 729-742, the branch taken without a server when the node has an
\* entry in PURZ_RENDERED_IMAGES: every frame is decoded, whatever their count.
FallbackOutput(nid, bs) ==
    LET entry == IF nid \in Nodes THEN PURZ_RENDERED_IMAGES[nid] ELSE Absent
    IN  IF /\ entry.st = "list"
           /\ Len(entry.fr) > 0
           /\ \A k \in 1..Len(entry.fr) : entry.fr[k] = "png"
        THEN DecodedBatch(Len(entry.fr))
        ELSE InputBatch(bs)

\* Lines 622-654: entry, output_image = image, the branch test, and on the
\* wait branch the new batch id written to PURZ_BATCH_ID.
Enter(t, nid, bs) ==
    /\ pc[t] = "idle"
    /\ saw_final' = [saw_final EXCEPT ![t] = FALSE]
    /\ UNCHANGED <<final_seen, aux, ext, pure>>
    /\ invocations < MaxInvocations
    /\ invocations' = invocations + 1
    /\ node_id' = [node_id EXCEPT ![t] = nid]
    /\ batch_size' = [batch_size EXCEPT ![t] = bs]
    /\ waited' = [waited EXCEPT ![t] = 0]
    /\ rendered_frames' = [rendered_frames EXCEPT ![t] = Absent]
    /\ alias' = [alias EXCEPT ![t] = FALSE]
    /\ loop_exit' = [loop_exit EXCEPT ![t] = "-"]
    /\ IF WaitBranch(nid, bs)
       THEN \E salt \in Salts :
              LET id == NewBatchId(nid, clock, salt)
              IN  /\ batch_id' = [batch_id EXCEPT ![t] = id]
                  /\ PURZ_BATCH_ID' = [PURZ_BATCH_ID EXCEPT ![nid] = id]
                  /\ recorded' = [recorded EXCEPT ![nid] = @ \cup {id}]
                  /\ entered' = [entered EXCEPT ![nid] = @ + 1]
                  /\ output_image' = [output_image EXCEPT ![t] = InputBatch(bs)]
                  /\ outcome' = [outcome EXCEPT ![t] = "-"]
                  /\ pc' = [pc EXCEPT ![t] = "L657"]
       ELSE /\ batch_id' = [batch_id EXCEPT ![t] = NoId]
            /\ output_image' = [output_image EXCEPT ![t] = FallbackOutput(nid, bs)]
            /\ outcome' = [outcome EXCEPT ![t] = "nowait"]
            /\ pc' = [pc EXCEPT ![t] = "L760"]
            /\ UNCHANGED <<PURZ_BATCH_ID, recorded, entered>>
    /\ UNCHANGED <<HAS_SERVER, PURZ_BATCH_PENDING, PURZ_BATCH_READY,
                   PURZ_RENDERED_IMAGES, clock, track>>

\* Line 657: PURZ_BATCH_PENDING[node_id] = batch_size.
SetPending(t) ==
    /\ pc[t] = "L657"
    /\ UNCHANGED <<hist, aux, ext, pure>>
    /\ PURZ_BATCH_PENDING' = [PURZ_BATCH_PENDING EXCEPT ![node_id[t]] = batch_size[t]]
    /\ pc' = [pc EXCEPT ![t] = "L658"]
    /\ UNCHANGED <<HAS_SERVER, PURZ_BATCH_ID, PURZ_BATCH_READY, PURZ_RENDERED_IMAGES,
                   clock, locals, invocations, ghosts>>

\* A reset of the ready flag that clears the flag of every node.
SetReadyFalse_AllNodes(t) ==
    /\ pc[t] = "L658"
    /\ final_seen' = [final_seen EXCEPT ![node_id[t]] = FALSE]
    /\ UNCHANGED <<saw_final, aux, ext, pure>>
    /\ PURZ_BATCH_READY' = [n \in Nodes |-> "false"]
    /\ pc' = [pc EXCEPT ![t] = "L659"]
    /\ UNCHANGED <<HAS_SERVER, PURZ_BATCH_ID, PURZ_BATCH_PENDING, PURZ_RENDERED_IMAGES,
                   clock, locals, invocations, ghosts>>

\* Line 658: PURZ_BATCH_READY[node_id] = False.
SetReadyFalse(t) ==
    /\ pc[t] = "L658"
    /\ final_seen' = [final_seen EXCEPT ![node_id[t]] = FALSE]
    /\ UNCHANGED <<saw_final, aux, ext, pure>>
    /\ PURZ_BATCH_READY' = [PURZ_BATCH_READY EXCEPT ![node_id[t]] = "false"]
    /\ pc' = [pc EXCEPT ![t] = "L659"]
    /\ UNCHANGED <<HAS_SERVER, PURZ_BATCH_ID, PURZ_BATCH_PENDING, PURZ_RENDERED_IMAGES,
                   clock, locals, invocations, ghosts>>

\* Line 659: PURZ_RENDERED_IMAGES[node_id] = None.  A list object another
\* thread still holds is no longer the dictionary's.
SetRenderedNone(t) ==
    /\ pc[t] = "L659"
    /\ UNCHANGED <<hist, aux, ext, pure>>
    /\ PURZ_RENDERED_IMAGES' = [PURZ_RENDERED_IMAGES EXCEPT ![node_id[t]] = None]
    /\ alias' = [u \in Threads |-> alias[u] /\ node_id[u] # node_id[t]]
    /\ track' = [track EXCEPT ![node_id[t]] = NoTrack]
    /\ pc' = [pc EXCEPT ![t] = "L664"]
    /\ UNCHANGED <<HAS_SERVER, PURZ_BATCH_ID, PURZ_BATCH_PENDING, PURZ_BATCH_READY,
                   clock, node_id, batch_size, batch_id, waited, rendered_frames,
                   output_image, invocations, recorded, entered,
                   loop_exit, outcome>>

\* Lines 664-672: send_sync("purz.batch_pending", ...) announces batch_id to
\* the renderer, then time.sleep(0.5): the millisecond clock has moved on.
Notify(t) ==
    /\ pc[t] = "L664"
    /\ UNCHANGED <<hist, aux, ext, pure>>
    /\ clock' = clock + 1
    /\ pc' = [pc EXCEPT ![t] = "L680"]
    /\ UNCHANGED <<HAS_SERVER, shared, locals, invocations, ghosts>>

\* The batch ids the renderer has been told for a node: those recorded, less
\* the one of an invocation that has not reached send_sync yet.
Sent(n) ==
    recorded[n] \ {batch_id[t] : t \in {u \in Threads :
                        node_id[u] = n /\ pc[u] \in {"L657", "L658", "L659", "L664"}}}

\* Line 680: PURZ_BATCH_READY.get(node_id, False).
Ready(n) == PURZ_BATCH_READY[n] = "true"

\* Line 680: waited < max_wait, in polls.
BelowCeiling(w) == w < MaxPolls

\* Lines 680-682: the loop test and, when it holds, one sleep of poll_interval.
Poll(t) ==
    /\ pc[t] = "L680"
    /\ UNCHANGED <<hist, aux, ext, pure>>
    /\ IF ~Ready(node_id[t]) /\ BelowCeiling(waited[t])
       THEN /\ waited' = [waited EXCEPT ![t] = @ + 1]
            /\ UNCHANGED <<pc, loop_exit>>
       ELSE /\ pc' = [pc EXCEPT ![t] = "L690"]
            /\ loop_exit' = [loop_exit EXCEPT ![t] =
                                IF Ready(node_id[t]) THEN "ready" ELSE "ceiling"]
            /\ waited' = [waited EXCEPT ![t] = 0]
    /\ UNCHANGED <<HAS_SERVER, shared, clock, node_id, batch_size, batch_id,
                   rendered_frames, alias, output_image, invocations,
                   recorded, entered, track, outcome>>

\* Line 690: if PURZ_BATCH_READY.get(node_id, False), else the timeout branch.
CheckReady(t) ==
    /\ pc[t] = "L690"
    /\ saw_final' = [saw_final EXCEPT ![t] = final_seen[node_id[t]]]
    /\ UNCHANGED <<final_seen, aux, ext, pure>>
    /\ IF Ready(node_id[t])
       THEN /\ pc' = [pc EXCEPT ![t] = "L691"]
            /\ UNCHANGED outcome
       ELSE /\ pc' = [pc EXCEPT ![t] = "L724"]
            /\ outcome' = [outcome EXCEPT ![t] = "timeout"]
    /\ track' = [track EXCEPT ![node_id[t]] = IF Ready(node_id[t]) THEN @ ELSE BadTrack]
    /\ UNCHANGED <<HAS_SERVER, shared, clock, locals, invocations,
                   recorded, entered, loop_exit>>

\* Line 698: elif len(rendered_frames) == batch_size, else the mismatch branch.
CountMatches(frames, bs) == Len(frames) = bs

\* Lines 691-698: rendered_frames = PURZ_RENDERED_IMAGES.get(node_id), a
\* reference to the dictionary's list object, then the tests "is None",
\* "len == 0" and "len == batch_size" on it.  The three reads are one step:
\* the object only grows while it is the dictionary's, so what they see at
\* three moments they also see at the last of them.
ReadFrames(t) ==
    /\ pc[t] = "L691"
    /\ UNCHANGED <<hist, aux, ext, pure>>
    /\ LET entry == PURZ_RENDERED_IMAGES[node_id[t]]
           branch == IF entry.st # "list" THEN "none"
                     ELSE IF Len(entry.fr) = 0 THEN "empty"
                     ELSE IF CountMatches(entry.fr, batch_size[t]) THEN "decode"
                     ELSE "mismatch"
       IN  IF branch = "decode"
           THEN /\ rendered_frames' = [rendered_frames EXCEPT ![t] = entry]
                /\ alias' = [alias EXCEPT ![t] = TRUE]
                /\ pc' = [pc EXCEPT ![t] = "L703"]
                /\ UNCHANGED outcome
           ELSE /\ pc' = [pc EXCEPT ![t] = "L724"]
                /\ outcome' = [outcome EXCEPT ![t] = branch]
                /\ UNCHANGED <<rendered_frames, alias>>
    /\ track' = [track EXCEPT ![node_id[t]] = BadTrack]
    /\ UNCHANGED <<HAS_SERVER, shared, clock, node_id, batch_size, batch_id, waited,
                   output_image, invocations, recorded, entered, loop_exit>>

\* The index of the first frame that does not decode, 0 when all do.
RECURSIVE FirstBad(_, _)
FirstBad(frames, k) ==
    IF k > Len(frames) THEN 0
    ELSE IF frames[k] = "bad" THEN k
    ELSE FirstBad(frames, k + 1)

\* Line 711 after the loop: output_image = torch.stack(batch_results).
Stacked(out, frames) == DecodedBatch(Len(frames))

\* An except branch that keeps the frames decoded before the failure.
AfterDecodeError_Partial(out, frames) == [kind |-> "mixed", n |-> out.n]

\* Lines 714-717: the except branch leaves output_image as it is.
AfterDecodeError(out, frames) == out

\* Lines 699-717: "for i, rendered_b64 in enumerate(rendered_frames)" decodes
\* the list object as it is when the iterator ends: frames appended to the
\* object since line 698 are iterated too.  A frame that does not decode
\* raises into the except of line 714.
DecodeAll(t) ==
    /\ pc[t] = "L703"
    /\ UNCHANGED <<hist, aux, ext, pure>>
    /\ LET frames == rendered_frames[t].fr
       IN  IF FirstBad(frames, 1) = 0
           THEN /\ output_image' = [output_image EXCEPT ![t] = Stacked(@, frames)]
                /\ outcome' = [outcome EXCEPT ![t] = "decoded"]
           ELSE /\ output_image' = [output_image EXCEPT ![t] = AfterDecodeError(@, frames)]
                /\ outcome' = [outcome EXCEPT ![t] = "decode_error"]
    /\ pc' = [pc EXCEPT ![t] = "L724"]
    /\ rendered_frames' = [rendered_frames EXCEPT ![t] = Absent]
    /\ alias' = [alias EXCEPT ![t] = FALSE]
    /\ UNCHANGED <<HAS_SERVER, shared, clock, node_id, batch_size, batch_id, waited,
                   invocations, recorded, entered, track, loop_exit>>

\* A cleanup that leaves PURZ_BATCH_PENDING as it is.
PopPending_Skipped(t) ==
    /\ pc[t] = "L724"
    /\ pc' = [pc EXCEPT ![t] = "L725"]
    /\ UNCHANGED <<HAS_SERVER, shared, clock, locals, invocations, ghosts, hist, aux, ext, pure>>

\* Line 724: PURZ_BATCH_PENDING.pop(node_id, None).
PopPending(t) ==
    /\ pc[t] = "L724"
    /\ UNCHANGED <<hist, aux, ext, pure>>
    /\ PURZ_BATCH_PENDING' = [PURZ_BATCH_PENDING EXCEPT ![node_id[t]] = 0]
    /\ pc' = [pc EXCEPT ![t] = "L725"]
    /\ UNCHANGED <<HAS_SERVER, PURZ_BATCH_ID, PURZ_BATCH_READY, PURZ_RENDERED_IMAGES,
                   clock, locals, invocations, ghosts>>

\* Line 725: PURZ_BATCH_READY.pop(node_id, None).
PopReady(t) ==
    /\ pc[t] = "L725"
    /\ final_seen' = [final_seen EXCEPT ![node_id[t]] = FALSE]
    /\ UNCHANGED <<saw_final, aux, ext, pure>>
    /\ PURZ_BATCH_READY' = [PURZ_BATCH_READY EXCEPT ![node_id[t]] = "absent"]
    /\ pc' = [pc EXCEPT ![t] = "L726"]
    /\ UNCHANGED <<HAS_SERVER, PURZ_BATCH_ID, PURZ_BATCH_PENDING, PURZ_RENDERED_IMAGES,
                   clock, locals, invocations, ghosts>>

\* Line 726: PURZ_RENDERED_IMAGES.pop(node_id, None).
PopRendered(t) ==
    /\ pc[t] = "L726"
    /\ UNCHANGED <<hist, aux, ext, pure>>
    /\ PURZ_RENDERED_IMAGES' = [PURZ_RENDERED_IMAGES EXCEPT ![node_id[t]] = Absent]
    /\ alias' = [u \in Threads |-> alias[u] /\ node_id[u] # node_id[t]]
    /\ pc' = [pc EXCEPT ![t] = "L760"]
    /\ UNCHANGED <<HAS_SERVER, PURZ_BATCH_ID, PURZ_BATCH_PENDING, PURZ_BATCH_READY,
                   clock, node_id, batch_size, batch_id, waited, rendered_frames,
                   output_image, invocations, ghosts>>

\* Line 760: return output_image, results.  The locals die with the frame.
Return(t) ==
    /\ pc[t] = "L760"
    /\ saw_final' = [saw_final EXCEPT ![t] = FALSE]
    /\ UNCHANGED <<final_seen, aux, ext, pure>>
    /\ pc' = [pc EXCEPT ![t] = "idle"]
    /\ node_id' = [node_id EXCEPT ![t] = NoNode]
    /\ batch_size' = [batch_size EXCEPT ![t] = 0]
    /\ batch_id' = [batch_id EXCEPT ![t] = NoId]
    /\ waited' = [waited EXCEPT ![t] = 0]
    /\ rendered_frames' = [rendered_frames EXCEPT ![t] = Absent]
    /\ alias' = [alias EXCEPT ![t] = FALSE]
    /\ output_image' = [output_image EXCEPT ![t] = InputBatch(0)]
    /\ loop_exit' = [loop_exit EXCEPT ![t] = "-"]
    /\ outcome' = [outcome EXCEPT ![t] = "-"]
    /\ UNCHANGED <<HAS_SERVER, shared, clock, invocations, recorded, entered, track>>

\* ------------------------------------------ the route set_rendered_batch
\* An invocation of node n that has reset its slot and not yet read the frames.
Awaiting(n) ==
    \E t \in Threads :
        /\ node_id[t] = n
        /\ pc[t] \in {"L664", "L680", "L690", "L691"}

\* Lines 900-901: batch_id and expected_batch_id and batch_id != expected_batch_id.
StaleBatch(n, b) ==
    /\ b # NoId
    /\ PURZ_BATCH_ID[n] # NoId
    /\ b # PURZ_BATCH_ID[n]

\* An accumulation that binds the slot to the request's list for every chunk.
Accumulate_Rebind(entry, frames, chunk_index) == List(frames)

\* Lines 906-911: chunk 0 binds the slot to the request's list; any other
\* chunk extends the slot's list, an empty one when the slot is missing or None.
Accumulate(entry, frames, chunk_index) ==
    IF chunk_index = 0 THEN List(frames)
    ELSE IF entry.st = "list" THEN List(entry.fr \o frames)
    ELSE List(frames)

\* Line 911 mutates the list object in place; lines 907 and 910 bind a new one.
SameObject(entry, chunk_index) == chunk_index # 0 /\ entry.st = "list"

\* A handler that sets ready on every accepted chunk.
ReadyAfter_EveryChunk(ready, is_final) == "true"

\* Lines 917-918: PURZ_BATCH_READY[node_id] = True on the final chunk only.
ReadyAfter(ready, is_final) == IF is_final THEN "true" ELSE ready

\* Lines 903 and 921: the JSON response.
Response(n, b, frames, chunk_index, is_final) ==
    IF StaleBatch(n, b)
    THEN [success |-> FALSE, count |-> 0, ready |-> FALSE]
    ELSE [success |-> TRUE,
          count |-> Len(Accumulate(PURZ_RENDERED_IMAGES[n], frames, chunk_index).fr),
          ready |-> is_final]

\* The history of accepted chunks, after one more.
Tracked(n, b, frames, chunk_index, is_final) ==
    LET tr == track[n]
    IN  IF /\ Awaiting(n)
           /\ b # NoId
           /\ b = PURZ_BATCH_ID[n]
           /\ tr.st \in {"none", "open"}
           /\ chunk_index = tr.next
        THEN [st |-> IF is_final THEN "final" ELSE "open",
              next |-> tr.next + 1,
              cat |-> tr.cat \o frames]
        ELSE BadTrack

\* Lines 892-921, the whole handler (no await after line 889).
set_rendered_batch(n, b, frames, chunk_index, is_final) ==
    /\ HAS_SERVER
    /\ Len(Accumulate(PURZ_RENDERED_IMAGES[n], frames, chunk_index).fr) <= MaxBatch
    /\ IF StaleBatch(n, b)
       THEN UNCHANGED vars
       ELSE LET entry == PURZ_RENDERED_IMAGES[n]
                new == Accumulate(entry, frames, chunk_index)
                same == SameObject(entry, chunk_index)
            IN  /\ PURZ_RENDERED_IMAGES' = [PURZ_RENDERED_IMAGES EXCEPT ![n] = new]
                /\ PURZ_BATCH_READY' = [PURZ_BATCH_READY EXCEPT ![n] = ReadyAfter(@, is_final)]
                /\ rendered_frames' = [t \in Threads |->
                        IF alias[t] /\ node_id[t] = n /\ same
                        THEN new ELSE rendered_frames[t]]
                /\ alias' = [t \in Threads |->
                        alias[t] /\ (node_id[t] = n => same)]
                /\ track' = [track EXCEPT ![n] =
                                Tracked(n, b, frames, chunk_index, is_final)]
                /\ final_seen' = [final_seen EXCEPT ![n] = @ \/ is_final]
                /\ UNCHANGED <<saw_final, aux, ext, pure>>
                /\ UNCHANGED <<HAS_SERVER, PURZ_BATCH_ID, PURZ_BATCH_PENDING, clock, pc,
                               node_id, batch_size, batch_id, waited,
                               output_image, invocations, recorded, entered,
                               loop_exit, outcome>>

\* ------------------------------------------------------- specification
Next ==
    \/ \E t \in MainThreads, nid \in MainNodes \cup {NoNode}, bs \in 1..MaxBatch : Enter(t, nid, bs)
    \/ \E t \in MainThreads : SetPending(t)
    \/ \E t \in MainThreads : SetReadyFalse(t)
    \/ \E t \in MainThreads : SetRenderedNone(t)
    \/ \E t \in MainThreads : Notify(t)
    \/ \E t \in MainThreads : Poll(t)
    \/ \E t \in MainThreads : CheckReady(t)
    \/ \E t \in MainThreads : ReadFrames(t)
    \/ \E t \in MainThreads : DecodeAll(t)
    \/ \E t \in MainThreads : PopPending(t)
    \/ \E t \in MainThreads : PopReady(t)
    \/ \E t \in MainThreads : PopRendered(t)
    \/ \E t \in MainThreads : Return(t)
    \/ \E n \in MainNodes, frames \in ChunkFrames, chunk_index \in ChunkIndexes,
          is_final \in BOOLEAN :
          \E b \in Sent(n) \cup {NoId} :
              set_rendered_batch(n, b, frames, chunk_index, is_final)

Spec == Init /\ [][Next]_vars

\* ------------------------------------------------- the wait loop, exactly
\* Lines 676-682 keep waited, max_wait and poll_interval as Python floats
\* (IEEE-754 doubles).  Here a float below 2^12 is the integer number of
\* units of 2^-55 it holds, written as Limbs digits in base Base, least
\* significant first: 0.1 as a double is 3602879701896397 * 2^-55.
Base == 32768
Limbs == 5

\* Line 676: max_wait = 300.
max_wait == 300

\* Line 677: poll_interval = 0.1, the double nearest to one tenth.
poll_interval == <<19661, 6553, 13107, 102, 0>>

RECURSIVE Carry(_, _, _)
\* Digits s with carry c brought into digit i and propagated upwards.
Carry(s, i, c) ==
    IF i > Len(s) THEN s
    ELSE LET v == s[i] + c
         IN  Carry([s EXCEPT ![i] = v % Base], i + 1, v \div Base)

\* The float of a Python int n: n * 2^55 = n * 2^10 * Base^3 units.
FromInt(n) == Carry(<<0, 0, 0, n * 1024, 0>>, 1, 0)

RECURSIVE Bits(_)
\* Number of binary digits of v.
Bits(v) == IF v = 0 THEN 0 ELSE 1 + Bits(v \div 2)

RECURSIVE TopLimb(_, _)
\* Index of the highest non-zero digit of s at or below i, 0 if none.
TopLimb(s, i) == IF i = 0 THEN 0 ELSE IF s[i] # 0 THEN i ELSE TopLimb(s, i - 1)

BitLen(s) ==
    LET k == TopLimb(s, Limbs) IN IF k = 0 THEN 0 ELSE 15 * (k - 1) + Bits(s[k])

RECURSIVE Pow2(_)
Pow2(d) == IF d = 0 THEN 1 ELSE 2 * Pow2(d - 1)

\* Rounding of an exact sum to a double: 53 significant bits, round to
\* nearest, ties to even.  The bits dropped (fewer than 15 for values below
\* 2^12) all lie in the lowest digit.
RoundToDouble(s) ==
    LET d == BitLen(s) - 53
    IN  IF d <= 0 THEN s
        ELSE LET m    == Pow2(d)
                 low  == s[1] % m
                 half == m \div 2
                 odd  == (s[1] \div m) % 2 = 1
                 down == [s EXCEPT ![1] = @ - low]
             IN  IF low > half \/ (low = half /\ odd)
                 THEN Carry(down, 1, m)
                 ELSE down

\* Line 682: waited += poll_interval, a float addition.
FAdd(a, b) == RoundToDouble(Carry([i \in 1..Limbs |-> a[i] + b[i]], 1, 0))

RECURSIVE LessFrom(_, _, _)
LessFrom(a, b, i) ==
    IF i = 0 THEN FALSE
    ELSE IF a[i] # b[i] THEN a[i] < b[i] ELSE LessFrom(a, b, i - 1)

\* Line 680: waited < max_wait, a float against an int.
FLess(a, b) == LessFrom(a, b, Limbs)

\* Lines 680-682 while the loop test holds: one read of ready, one sleep.
WaitPoll(t) ==
    /\ pc[t] = "L680"
    /\ FLess(fwaited, FromInt(max_wait))
    /\ ~Ready(node_id[t])
    /\ fwaited' = FAdd(fwaited, poll_interval)
    /\ polls' = polls + 1
    /\ UNCHANGED <<HAS_SERVER, shared, clock, pc, locals, invocations, ghosts, hist,
                   ext, pure>>

\* Line 680 when the loop test fails: on to line 690.
WaitExit(t) ==
    /\ pc[t] = "L680"
    /\ ~(FLess(fwaited, FromInt(max_wait)) /\ ~Ready(node_id[t]))
    /\ pc' = [pc EXCEPT ![t] = "L690"]
    /\ loop_exit' = [loop_exit EXCEPT ![t] =
                        IF Ready(node_id[t]) THEN "ready" ELSE "ceiling"]
    /\ UNCHANGED <<HAS_SERVER, shared, clock, locals, invocations,
                   recorded, entered, track, outcome, hist, aux, ext, pure>>

\* One invocation up to the end of its wait, the renderer delivering
\* nothing: the longest wait there is.
NextWait ==
    \/ \E t \in MainThreads, nid \in MainNodes, bs \in 1..MaxBatch : Enter(t, nid, bs)
    \/ \E t \in MainThreads : SetPending(t)
    \/ \E t \in MainThreads : SetReadyFalse(t)
    \/ \E t \in MainThreads : SetRenderedNone(t)
    \/ \E t \in MainThreads : Notify(t)
    \/ \E t \in MainThreads : WaitPoll(t)
    \/ \E t \in MainThreads : WaitExit(t)

SpecWait == Init /\ [][NextWait]_vars

\* ------------------------------------------------- float32 pixel values
\* The filters work on numpy float32 arrays.  A finite value v >= 0 is the
\* integer v * 2^60 in digits of base Base, least significant first
\* (FDigits digits, so v < 2^15); the results of numpy's division by zero,
\* nan and inf, are values of their own.  Every operation rounds as IEEE-754
\* does: to nearest, ties to even, 24 significant bits for float32 and 53
\* for a Python float.
FDigits == 5

Zeros(n) == [i \in 1..n |-> 0]

Fin(d) == [k |-> "fin", v |-> d]
NaN == [k |-> "nan", v |-> Zeros(FDigits)]
Inf == [k |-> "inf", v |-> Zeros(FDigits)]

\* 0.0 and 1.0.
F0 == Fin(Zeros(FDigits))
F1 == Fin(<<0, 0, 0, 0, 1>>)

BitLenOf(s) ==
    LET k == TopLimb(s, Len(s)) IN IF k = 0 THEN 0 ELSE 15 * (k - 1) + Bits(s[k])

\* Bit i (from 0) of the digits s.
BitAt(s, i) == (s[(i \div 15) + 1] \div Pow2(i % 15)) % 2

\* Some bit of s below bit i is set.
AnyBelow(s, i) ==
    \/ s[(i \div 15) + 1] % Pow2(i % 15) # 0
    \/ \E j \in 1..(i \div 15) : s[j] # 0

\* The bits of s below bit i cleared.
ClearBelow(s, i) ==
    [j \in 1..Len(s) |->
        IF j < (i \div 15) + 1 THEN 0
        ELSE IF j = (i \div 15) + 1 THEN (s[j] \div Pow2(i % 15)) * Pow2(i % 15)
        ELSE s[j]]

\* s rounded to `bits` significant bits, to nearest, ties to even.
RoundBits(s, bits) ==
    LET d == BitLenOf(s) - bits
    IN  IF d <= 0 THEN s
        ELSE LET guard  == BitAt(s, d - 1) = 1
                 sticky == AnyBelow(s, d - 1)
                 odd    == BitAt(s, d) = 1
                 down   == ClearBelow(s, d)
             IN  IF guard /\ (sticky \/ odd)
                 THEN Carry(down, (d \div 15) + 1, Pow2(d % 15))
                 ELSE down

LessEq(a, b) == ~LessFrom(b, a, Len(a))

RECURSIVE Borrow(_, _, _)
\* Digits s, some of them negative, with borrow c taken from digit i upwards.
Borrow(s, i, c) ==
    IF i > Len(s) THEN s
    ELSE LET v == s[i] - c
         IN  IF v < 0 THEN Borrow([s EXCEPT ![i] = v + Base], i + 1, 1)
             ELSE Borrow([s EXCEPT ![i] = v], i + 1, 0)

\* a - b for a >= b.
SubDigits(a, b) == Borrow([i \in 1..Len(a) |-> a[i] - b[i]], 1, 0)

AddDigits(a, b) == Carry([i \in 1..Len(a) |-> a[i] + b[i]], 1, 0)

RECURSIVE TimesDigit(_, _, _, _)
\* The digits a times the single digit k, from digit i on, with carry c:
\* one digit longer than a.
TimesDigit(a, k, i, c) ==
    IF i > Len(a) THEN <<c>>
    ELSE LET v == a[i] * k + c
         IN  <<v % Base>> \o TimesDigit(a, k, i + 1, v \div Base)

RECURSIVE TimesFrom(_, _, _)
\* The sum over j' >= j of a * b[j'] * Base^(j'-1), in Len(a) + Len(b) digits.
TimesFrom(a, b, j) ==
    IF j > Len(b) THEN Zeros(Len(a) + Len(b))
    ELSE AddDigits(Zeros(j - 1) \o TimesDigit(a, b[j], 1, 0) \o Zeros(Len(b) - j),
                   TimesFrom(a, b, j + 1))

\* The exact product of two values, in units of 2^-120.
TimesDigits(a, b) == TimesFrom(a, b, 1)

\* Product of two floats in an arithmetic of `bits` significant bits.  The
\* rounded product is cut back to units of 2^-60, which loses nothing for a
\* product of 2^-36 or more.
MulF(x, y, bits) ==
    IF x.k = "nan" \/ y.k = "nan" THEN NaN
    ELSE IF x.k = "inf" \/ y.k = "inf"
         THEN (IF x = F0 \/ y = F0 THEN NaN ELSE Inf)
    ELSE Fin(SubSeq(RoundBits(TimesDigits(x.v, y.v), bits), FDigits, 2 * FDigits - 1))

\* Sum of two floats that are not negative.
AddF(x, y, bits) ==
    IF x.k = "nan" \/ y.k = "nan" THEN NaN
    ELSE IF x.k = "inf" \/ y.k = "inf" THEN Inf
    ELSE Fin(RoundBits(AddDigits(x.v, y.v), bits))

\* Difference x - y of finite floats, x >= y.
SubF(x, y, bits) ==
    IF x.k = "nan" \/ y.k = "nan" THEN NaN
    ELSE Fin(RoundBits(SubDigits(x.v, y.v), bits))

\* float32 arithmetic.
Mul32(x, y) == MulF(x, y, 24)
Add32(x, y) == AddF(x, y, 24)
Sub32(x, y) == SubF(x, y, 24)

\* A Python float (double) cast to float32 when it meets a float32 array.
Cast32(x) == IF x.k = "fin" THEN Fin(RoundBits(x.v, 24)) ELSE x

\* The Python float 1 - x for a Python float 0 <= x <= 1.
OneMinus(x) == Fin(RoundBits(SubDigits(F1.v, x.v), 53))

\* np.clip(x, 0, 1) of a value that is not negative: nan stays nan.
Clip01(x) ==
    IF x.k = "nan" THEN NaN
    ELSE IF x.k = "inf" THEN F1
    ELSE IF LessEq(x.v, F1.v) THEN x ELSE F1

\* np.floor of a value that is not negative.
Floor32(x) == IF x.k = "fin" THEN Fin(ClearBelow(x.v, 60)) ELSE x

\* The floats 0.5 and 0.75, 0.25, and the float32 values nearest to 0.015
\* and 0.49; the Python float 0.3.
FHalf == Fin(<<0, 0, 0, 16384, 0>>)
F075 == Fin(<<0, 0, 0, 24576, 0>>)
F025 == Fin(<<0, 0, 0, 8192, 0>>)
F0015 == Fin(<<0, 0, 17039, 491, 0>>)
F049 == Fin(<<0, 0, 10496, 16056, 0>>)
\* The largest float32 below 0.5: 0.5 - 2^-25.
FBelowHalf == Fin(<<0, 0, 32736, 16383, 0>>)
D03 == Fin(<<19648, 6553, 13107, 9830, 0>>)

\* The float of a small Python int.
FromLevels(n) == Fin(<<0, 0, 0, 0, n>>)

\* x / m for a float32 x that is a whole number and a Python int m in 0..2:
\* numpy gives nan for 0 / 0 and inf for a positive value over 0.
DivInt(x, m) ==
    IF x.k # "fin" THEN x
    ELSE IF m = 0 THEN (IF x = F0 THEN NaN ELSE Inf)
    ELSE IF m = 1 THEN x
    ELSE Mul32(x, FHalf)

\* The digits s doubled.
Double(s) == Carry([i \in 1..Len(s) |-> 2 * s[i]], 1, 0)

RECURSIVE DivFrom(_, _, _, _)
\* Long division, one binary digit at a time: k more digits of the quotient
\* q of a remainder r < y.  The digit sequences are one digit longer than a
\* value's, so that 2 * r fits.  (The test on q has TLC evaluate q at every
\* step instead of at the end.)
DivFrom(r, y, q, k) ==
    IF k = 0 THEN [q |-> q, r |-> r]
    ELSE IF Len(q) > 0 /\ LessEq(y, Double(r))
         THEN DivFrom(SubDigits(Double(r), y), y, Carry(Double(q), 1, 1), k - 1)
         ELSE DivFrom(Double(r), y, Double(q), k - 1)

RECURSIVE ShortFrom(_, _, _, _)
\* Division of the digits s by a whole number 0 < m < Base, from digit i
\* down, with remainder rem brought in: the quotient's digits and the
\* remainder left.
ShortFrom(s, m, i, rem) ==
    IF i = 0 THEN [q |-> <<>>, r |-> rem]
    ELSE LET cur  == rem * Base + s[i]
             rest == ShortFrom(s, m, i - 1, cur % m)
         IN  [q |-> rest.q \o <<cur \div m>>, r |-> rest.r]

\* y is a whole number below Base.
WholeDigit(y) == y.v[FDigits] > 0 /\ \A i \in 1..(FDigits - 1) : y.v[i] = 0

\* x / y for finite floats x >= 0 and y, with x < 2 * y unless y is a whole
\* number below Base, in an arithmetic of `bits` significant bits: the
\* quotient to 75 binary places, a last bit set when the division leaves a
\* remainder, rounded and cut back to units of 2^-60 (which loses nothing
\* for a quotient of 2^(bits - 61) or more, or one that is a power of two).
\* numpy gives nan for 0 / 0 and inf for x / 0, x > 0.
DivF(x, y, bits) ==
    IF x.k = "nan" \/ y.k = "nan" THEN NaN
    ELSE IF y = F0 THEN (IF x = F0 THEN NaN ELSE Inf)
    ELSE LET xs   == x.v \o <<0>>
             ys   == y.v \o <<0>>
             one  == LessEq(ys, xs)
             d    == IF WholeDigit(y)
                     THEN LET sd == ShortFrom(<<0>> \o x.v, y.v[FDigits], FDigits + 1, 0)
                          IN  [q |-> sd.q, r |-> IF sd.r = 0 THEN Zeros(FDigits + 1) ELSE ys]
                     ELSE DivFrom(IF one THEN SubDigits(xs, ys) ELSE xs, ys,
                                  <<IF one THEN 1 ELSE 0>> \o Zeros(FDigits), 75)
             full == IF d.r = Zeros(FDigits + 1) \/ d.q[1] % 2 = 1 THEN d.q
                     ELSE [d.q EXCEPT ![1] = @ + 1]
         IN  Fin(SubSeq(RoundBits(full, bits), 2, FDigits + 1))

Div32(x, y) == DivF(x, y, 24)

\* x < y for finite floats.
Less32(x, y) == LessFrom(x.v, y.v, FDigits)

\* np.maximum and np.minimum of finite floats.
Max32(x, y) == IF Less32(x, y) THEN y ELSE x
Min32(x, y) == IF Less32(y, x) THEN y ELSE x

\* The floats 2.0, 4.0 and 6.0, and 2^-24.
F2 == FromLevels(2)
F4 == FromLevels(4)
F6 == FromLevels(6)
FTiny == Fin(<<0, 0, 64, 0, 0>>)

\* ---------------------------------------------------- the filter registry
\* An image is the sequence of its channel values; the effects modelled work
\* on each value by itself.  interactive_filters_v3.py repeats the same
\* arithmetic in the branches of its apply_filter.
\* np.random.random: values of [0, 1) the generator may give.
Draws == {FHalf, F075}

\* Lines 71-73: np.clip(result + amount, 0, 1).
_filter_brightness(res, params, original, draw) ==
    [i \in 1..Len(res) |-> Clip01(Add32(res[i], Cast32(params.amount)))]

\* Lines 315-318: result * (1 - amount) + (1.0 - result) * amount.
_filter_invert(res, params, original, draw) ==
    [i \in 1..Len(res) |->
        Add32(Mul32(res[i], Cast32(OneMinus(params.amount))),
              Mul32(Sub32(F1, res[i]), Cast32(params.amount)))]

\* Posterize dividing by levels instead of levels - 1.
_filter_posterize_ByLevels(res, params, original, draw) ==
    [i \in 1..Len(res) |->
        Clip01(DivInt(Floor32(Mul32(res[i], FromLevels(params.levels))),
                      params.levels))]

\* Lines 302-305: np.clip(np.floor(result * levels) / (levels - 1), 0, 1).
_filter_posterize(res, params, original, draw) ==
    [i \in 1..Len(res) |->
        Clip01(DivInt(Floor32(Mul32(res[i], FromLevels(params.levels))),
                      params.levels - 1))]

\* Lines 296-299: noise = (np.random.random(shape) * 2 - 1) * amount, a
\* float64 array, so the sum with the float32 result is a float64 one.
_filter_grain(res, params, original, draw) ==
    LET noise == MulF(SubF(MulF(draw, FromLevels(2), 53), F1, 53), params.amount, 53)
    IN  [i \in 1..Len(res) |-> Clip01(AddF(res[i], noise, 53))]

\* An image of n * n values, n > 1, is one band of n scanlines of n pixels,
\* scanline after scanline; any other image is a single scanline.  Rows and
\* Cols of an image of len values.
Rows(len) ==
    IF \E n \in 2..len : n * n = len
    THEN CHOOSE n \in 2..len : n * n = len
    ELSE 1
Cols(len) == len \div Rows(len)

\* Pixel i of an image of len values lies on no edge of the image.
Interior(len, i) ==
    /\ (i - 1) \div Cols(len) \in 1..(Rows(len) - 2)
    /\ (i - 1) % Cols(len) \in 1..(Cols(len) - 2)

F255 == FromLevels(255)

\* Line 343: (result * 255).astype(np.uint8) of a value of [0, 1]: the
\* float32 product, truncated.
ToUint8(x) == Floor32(Mul32(x, F255)).v[FDigits]

\* Pillow's clip8 of a whole number.
Clip8(v) == IF v < 0 THEN 0 ELSE IF v > 255 THEN 255 ELSE v

\* Lines 343-344: Image.fromarray((result * 255).astype(np.uint8)) and
\* img_pil.filter(ImageFilter.EMBOSS), the 3x3 kernel
\* (-1 0 0 / 0 1 0 / 0 0 0) with scale 1 and offset 128.  Pillow flips the
\* kernel vertically, so the weight -1 meets the pixel one scanline below
\* and one column to the left, and copies the pixels of the edges.
EMBOSS(res) ==
    [i \in 1..Len(res) |->
        IF Interior(Len(res), i)
        THEN Clip8(ToUint8(res[i]) - ToUint8(res[i + Cols(Len(res)) - 1]) + 128)
        ELSE ToUint8(res[i])]

\* Lines 342-345: np.array(embossed).astype(np.float32) / 255.0.
_filter_emboss(res, params, original, draw) ==
    [i \in 1..Len(res) |-> Div32(FromLevels(EMBOSS(res)[i]), F255)]

\* Lines 511-560: the effects of FILTER_REGISTRY that are modelled.
FILTER_REGISTRY == {"brightness", "invert", "posterize", "grain", "emboss"}

\* Significant bits of the array a handler returns.
ResultBits(effect) == IF effect = "grain" THEN 53 ELSE 24

\* Line 578: handler(result, params, original).
Handler(effect, res, params, original, draw) ==
    CASE effect = "brightness" -> _filter_brightness(res, params, original, draw)
      [] effect = "invert"     -> _filter_invert(res, params, original, draw)
      [] effect = "posterize"  -> _filter_posterize(res, params, original, draw)
      [] effect = "grain"      -> _filter_grain(res, params, original, draw)
      [] effect = "emboss"     -> _filter_emboss(res, params, original, draw)

\* Line 585: original * (1 - opacity) + result * opacity, the result array
\* being one of `bits` significant bits.
Blend(original, res, opacity, bits) ==
    [i \in 1..Len(original) |->
        AddF(Mul32(original[i], Cast32(OneMinus(opacity))),
             MulF(res[i], IF bits = 24 THEN Cast32(opacity) ELSE opacity, bits),
             bits)]

\* Line 586: np.clip(result, 0, 1).astype(np.float32).
ClipCast(res) == [i \in 1..Len(res) |-> Cast32(Clip01(res[i]))]

\* apply_filter with a handler for every name: a name that is not in the
\* registry gives a black result array.
apply_filter_BlackUnknown(img_np, effect, params, opacity, draw) ==
    LET original == img_np
        res      == IF effect \in FILTER_REGISTRY
                    THEN Handler(effect, img_np, params, original, draw)
                    ELSE [i \in 1..Len(img_np) |-> F0]
        bits     == IF effect \in FILTER_REGISTRY THEN ResultBits(effect) ELSE 24
    IN  ClipCast(Blend(original, res, opacity, bits))

\* Lines 564-586.
apply_filter(img_np, effect, params, opacity, draw) ==
    LET original == img_np
        res      == IF effect \in FILTER_REGISTRY
                    THEN Handler(effect, img_np, params, original, draw)
                    ELSE img_np
        bits     == IF effect \in FILTER_REGISTRY THEN ResultBits(effect) ELSE 24
    IN  ClipCast(Blend(original, res, opacity, bits))

RECURSIVE StackFrom_AllLayers(_, _, _, _)
\* The loop without line 593's test of the enabled flag.
StackFrom_AllLayers(res, layers, draws, i) ==
    IF i > Len(layers) THEN res
    ELSE StackFrom_AllLayers(apply_filter(res, layers[i].effect, layers[i].params,
                                          layers[i].opacity, draws[i]),
                             layers, draws, i + 1)

RECURSIVE StackFrom_Backwards(_, _, _, _)
\* The loop taking the layers from the last to the first.
StackFrom_Backwards(res, layers, draws, i) ==
    IF i > Len(layers) THEN res
    ELSE IF ~layers[i].enabled THEN StackFrom_Backwards(res, layers, draws, i + 1)
    ELSE apply_filter(StackFrom_Backwards(res, layers, draws, i + 1),
                      layers[i].effect, layers[i].params, layers[i].opacity, draws[i])

RECURSIVE StackFrom(_, _, _, _)
\* Lines 592-598: the loop over the layers from layer i on.
StackFrom(res, layers, draws, i) ==
    IF i > Len(layers) THEN res
    ELSE IF ~layers[i].enabled THEN StackFrom(res, layers, draws, i + 1)
    ELSE StackFrom(apply_filter(res, layers[i].effect, layers[i].params,
                                layers[i].opacity, draws[i]),
                   layers, draws, i + 1)

\* A stack that blends every layer against the stack's input image instead
\* of the image the layer was given.
apply_filter_stack_InputOriginal(img_np, layers, draws) ==
    LET after[k \in 0..Len(layers)] ==
            IF k = 0 THEN img_np
            ELSE IF ~layers[k].enabled THEN after[k - 1]
            ELSE LET known == layers[k].effect \in FILTER_REGISTRY
                     res   == IF known
                              THEN Handler(layers[k].effect, after[k - 1],
                                           layers[k].params, img_np, draws[k])
                              ELSE after[k - 1]
                 IN  ClipCast(Blend(img_np, res, layers[k].opacity,
                                    IF known THEN ResultBits(layers[k].effect) ELSE 24))
    IN  after[Len(layers)]

\* Lines 589-599.
apply_filter_stack(img_np, layers, draws) == StackFrom(img_np, layers, draws, 1)

\* interactive_filters_v3.py with line 300's opacity = 1.0 left out.
apply_filter_v3_BlendsTwice(img_np, effect, params, opacity, draw) ==
    LET original == img_np
        res      == IF effect = "emboss"
                    THEN Blend(img_np, _filter_emboss(img_np, params, original, draw),
                               opacity, 24)
                    ELSE IF effect \in FILTER_REGISTRY
                    THEN Handler(effect, img_np, params, original, draw)
                    ELSE img_np
        bits     == IF effect \in FILTER_REGISTRY THEN ResultBits(effect) ELSE 24
    IN  ClipCast(Blend(original, res, opacity, bits))

\* interactive_filters_v3.py lines 49-438: apply_filter as a chain of
\* branches.  The branches of the effects modelled repeat the arithmetic of
\* the registry's handlers, but for emboss (lines 294-300), which blends
\* with opacity itself and sets opacity = 1.0 for the blend of line 437.
apply_filter_v3(img_np, effect, params, opacity, draw) ==
    LET original == img_np
        res      == IF effect = "emboss"
                    THEN Blend(img_np, _filter_emboss(img_np, params, original, draw),
                               opacity, 24)
                    ELSE IF effect \in FILTER_REGISTRY
                    THEN Handler(effect, img_np, params, original, draw)
                    ELSE img_np
        bits     == IF effect \in FILTER_REGISTRY THEN ResultBits(effect) ELSE 24
    IN  ClipCast(Blend(original, res, IF effect = "emboss" THEN F1 ELSE opacity, bits))

RECURSIVE StackFrom_v3(_, _, _, _)
\* interactive_filters_v3.py lines 444-450: the loop over the layers.
StackFrom_v3(res, layers, draws, i) ==
    IF i > Len(layers) THEN res
    ELSE IF ~layers[i].enabled THEN StackFrom_v3(res, layers, draws, i + 1)
    ELSE StackFrom_v3(apply_filter_v3(res, layers[i].effect, layers[i].params,
                                      layers[i].opacity, draws[i]),
                      layers, draws, i + 1)

\* interactive_filters_v3.py lines 441-451.
apply_filter_stack_v3(img_np, layers, draws) == StackFrom_v3(img_np, layers, draws, 1)

\* mask=None.
NoMask == <<>>

\* The mask blend with the two weights exchanged.
MaskBlend_Swapped(image, output, same, mask) ==
    IF mask = NoMask \/ same THEN output
    ELSE [i \in 1..Len(image) |->
            Add32(Mul32(image[i], mask[i]), Mul32(output[i], Sub32(F1, mask[i])))]

\* Lines 745-758: the mask blend of process_interactive_filter, in torch
\* float32: image * (1.0 - mask) + output_image * mask, skipped without a
\* mask and when output_image is the input tensor itself.  The mask has the
\* frame's size (no interpolation) and one value per channel value.
MaskBlend(image, output, same, mask) ==
    IF mask = NoMask \/ same THEN output
    ELSE [i \in 1..Len(image) |->
            Add32(Mul32(image[i], Sub32(F1, mask[i])), Mul32(output[i], mask[i]))]

\* ------------------------------------------- the filter functions, called
\* Largest layer stack given to apply_filter_stack.
MaxLayers == 2

Pixels == {F0, F0015, F025, F049, FBelowHalf, FHalf, F1}
Images == {<<p>> : p \in Pixels}
Masks == {NoMask} \cup {<<m>> : m \in {F0, F025, F1}}
\* Opacities: Python floats.
Opacities == {F0, D03, F1}
\* Effect names: four of the registry, a name that is not in it, and the
\* empty name layer.get("effect", "") gives a layer without the field.
Effects == {"brightness", "invert", "posterize", "grain", "nosuch", ""}
Params == {[amount |-> a, levels |-> l] : a \in {F025, F1}, l \in 1..3}
Layers ==
    {[effect |-> e, params |-> p, opacity |-> o, enabled |-> TRUE] :
        e \in Effects, p \in Params, o \in Opacities}
\* The layers of the stacks: brightness and invert at opacity 1, enabled or
\* not, and a layer without an effect at opacity 0.3 and 1.  No grain, so
\* that a stack has one result.
StackLayers ==
    {[effect |-> e, params |-> [amount |-> F025, levels |-> 2], opacity |-> F1,
      enabled |-> b] : e \in {"brightness", "invert"}, b \in BOOLEAN}
    \cup {[effect |-> "", params |-> [amount |-> F025, levels |-> 2], opacity |-> o,
            enabled |-> TRUE] : o \in {D03, F1}}
\* An enabled layer of the effect at opacity 1, with the parameters of the
\* stacks' layers (amount 0.25).
LayerOf(effect) ==
    [effect |-> effect, params |-> [amount |-> F025, levels |-> 2], opacity |-> F1,
     enabled |-> TRUE]

Stacks == SeqsUpTo(StackLayers, MaxLayers)
NoDraws == [i \in 1..MaxLayers |-> FHalf]

\* One call of apply_filter, and the same call once more.
Call_apply_filter(img, layer, d1, d2) ==
    /\ call = NoCall
    /\ call' = [fn |-> "apply_filter", img |-> img, layers |-> <<layer>>,
                mask |-> NoMask, other |-> img, same |-> FALSE]
    /\ result' = [fn |-> "apply_filter",
                  out |-> apply_filter(img, layer.effect, layer.params, layer.opacity, d1),
                  again |-> apply_filter(img, layer.effect, layer.params, layer.opacity, d2)]
    /\ UNCHANGED <<HAS_SERVER, shared, clock, pc, locals, invocations, ghosts, hist,
                   aux, ext>>

\* One call of apply_filter_stack.
Call_apply_filter_stack(img, layers) ==
    /\ call = NoCall
    /\ call' = [fn |-> "apply_filter_stack", img |-> img, layers |-> layers,
                mask |-> NoMask, other |-> img, same |-> FALSE]
    /\ result' = [fn |-> "apply_filter_stack",
                  out |-> apply_filter_stack(img, layers, NoDraws),
                  again |-> apply_filter_stack(img, layers, NoDraws)]
    /\ UNCHANGED <<HAS_SERVER, shared, clock, pc, locals, invocations, ghosts, hist,
                   aux, ext>>

\* The mask blend at the end of one invocation: image the input, output the
\* decoded frames or, with same, the input tensor itself.
Call_mask_blend(image, output, same, mask) ==
    /\ call = NoCall
    /\ same => output = image
    /\ call' = [fn |-> "mask_blend", img |-> image, layers |-> <<>>,
                mask |-> mask, other |-> output, same |-> same]
    /\ result' = [fn |-> "mask_blend",
                  out |-> MaskBlend(image, output, same, mask),
                  again |-> MaskBlend(image, output, same, mask)]
    /\ UNCHANGED <<HAS_SERVER, shared, clock, pc, locals, invocations, ghosts, hist,
                   aux, ext>>

\* The call returns: the functions keep no state.
Return_call ==
    /\ call # NoCall
    /\ call' = NoCall
    /\ result' = NoResult
    /\ UNCHANGED <<HAS_SERVER, shared, clock, pc, locals, invocations, ghosts, hist,
                   aux, ext>>

NextFilters ==
    \/ \E img \in Images, layer \in Layers, d1 \in Draws, d2 \in Draws :
          Call_apply_filter(img, layer, d1, d2)
    \/ \E img \in Images, layers \in Stacks : Call_apply_filter_stack(img, layers)
    \/ \E image \in Images, output \in Images, same \in BOOLEAN, mask \in Masks :
          Call_mask_blend(image, output, same, mask)
    \/ Return_call

\* The functions do not read HAS_SERVER.
InitFilters == Init /\ HAS_SERVER

SpecFilters == InitFilters /\ [][NextFilters]_vars

\* ------------------------------------------------ effects on whole images
\* A difference a - b of floats that may be negative: its sign and its size.
Signed(neg, mag) == [neg |-> neg, mag |-> mag]

\* utils.py lines 181, 185, 189: (a - b) / delta in float32.
Ratio(a, b, delta) ==
    Signed(Less32(a, b),
           Div32(IF Less32(a, b) THEN Sub32(b, a) ELSE Sub32(a, b), delta))

\* utils.py line 181: x % 6 for |x| <= 1, numpy's remainder: fmod(x, 6) is x
\* itself, and 6 is added to it, in float32, when it is negative.
Mod6(x) == IF x.neg /\ x.mag # F0 THEN Sub32(F6, x.mag) ELSE x.mag

\* utils.py lines 185, 189: x + k in float32 for |x| <= 1 and k = 2, 4.
PlusInt(x, k) == IF x.neg THEN Sub32(k, x.mag) ELSE Add32(k, x.mag)

\* utils.py lines 147-194 for one pixel <<r, g, b>> of a float32 array: the
\* three np.where of lines 181, 185 and 189 are applied one after the other,
\* each overwriting the hue where its own channel is the maximum.
rgb_to_hsv_vectorized(rgb) ==
    LET r     == rgb[1]
        g     == rgb[2]
        b     == rgb[3]
        maxc  == Max32(Max32(r, g), b)
        minc  == Min32(Min32(r, g), b)
        v     == maxc
        delta == Sub32(maxc, minc)
        s     == IF Less32(F0, maxc) THEN Div32(delta, maxc) ELSE F0
        mask  == Less32(F0, delta)
        h0    == F0
        h1    == IF mask /\ maxc = r THEN Mod6(Ratio(g, b, delta)) ELSE h0
        h2    == IF mask /\ maxc = g THEN PlusInt(Ratio(b, r, delta), F2) ELSE h1
        h3    == IF mask /\ maxc = b THEN PlusInt(Ratio(r, g, delta), F4) ELSE h2
    IN  <<Div32(h3, F6), s, v>>

\* Channel values of the pixels converted: 0, 2^-24, 0.25, 0.5 and 1.
Channels == {F0, FTiny, F025, FHalf, F1}
RGBs == {<<r, g, b>> : r \in Channels, g \in Channels, b \in Channels}

\* One call of rgb_to_hsv_vectorized on an array of one pixel.
Call_rgb_to_hsv(rgb) ==
    /\ call = NoCall
    /\ call' = [fn |-> "rgb_to_hsv", img |-> rgb, layers |-> <<>>,
                mask |-> NoMask, other |-> rgb, same |-> FALSE]
    /\ LET hsv == rgb_to_hsv_vectorized(rgb)
       IN  result' = [fn |-> "rgb_to_hsv", out |-> hsv, again |-> hsv]
    /\ UNCHANGED <<HAS_SERVER, shared, clock, pc, locals, invocations, ghosts, hist,
                   aux, ext>>

\* Images of one band of 3 x 3 pixels: the pixel in the middle and the one
\* below it to the left vary, the others are 0.25.
EmbossPixels == {F0, F0015, FHalf, F1}
EmbossImages ==
    {<<F025, F025, F025, F025, c, F025, n, F025, F025>> :
        c \in EmbossPixels, n \in EmbossPixels}

\* One call of apply_filter for the emboss effect, in interactive_filters.py
\* (out) and in interactive_filters_v3.py (again).
Call_emboss(img, opacity) ==
    /\ call = NoCall
    /\ call' = [fn |-> "emboss", img |-> img,
                layers |-> <<[LayerOf("emboss") EXCEPT !.opacity = opacity]>>,
                mask |-> NoMask, other |-> img, same |-> FALSE]
    /\ result' = [fn |-> "emboss",
                  out |-> apply_filter(img, "emboss", LayerOf("emboss").params,
                                       opacity, FHalf),
                  again |-> apply_filter_v3(img, "emboss", LayerOf("emboss").params,
                                            opacity, FHalf)]
    /\ UNCHANGED <<HAS_SERVER, shared, clock, pc, locals, invocations, ghosts, hist,
                   aux, ext>>

\* The Python floats 0.1, 0.9 and 0.9375, 3.0, 10.0 and 20.0.
D01 == Fin(<<6560, 13107, 26214, 3276, 0>>)
D09 == Fin(<<26240, 19660, 6553, 29491, 0>>)
D09375 == Fin(<<0, 0, 0, 30720, 0>>)
F3 == FromLevels(3)
F10 == FromLevels(10)
F20 == FromLevels(20)

\* Lines 411-412: tex_y = y / h and band = np.floor(tex_y * 20.0), Python
\* floats; the band as a whole number.
BandOf(y, h) == Floor32(MulF(DivF(FromLevels(y), FromLevels(h), 53), F20, 53)).v[FDigits]

\* Lines 413-418: shift = (rnd - 0.5) * amount * 0.1, three times that when
\* rnd > 0.9, and pixel_shift = int(shift * w), which truncates towards 0.
\* The shift is kept as its sign and its size.
PixelShift(rnd, amount, w) ==
    LET neg   == Less32(rnd, FHalf)
        diff  == IF neg THEN SubF(FHalf, rnd, 53) ELSE SubF(rnd, FHalf, 53)
        shift == MulF(MulF(diff, amount, 53), D01, 53)
        more  == IF Less32(D09, rnd) THEN MulF(shift, F3, 53) ELSE shift
        size  == Floor32(MulF(more, FromLevels(w), 53)).v[FDigits]
    IN  IF neg THEN 0 - size ELSE size

\* A shift that repeats the edge value instead of wrapping around.
Roll_Clamped(a, p) ==
    LET w == Len(a)
    IN  [i \in 1..w |-> a[IF i - p < 1 THEN 1 ELSE IF i - p > w THEN w ELSE i - p]]

\* np.roll(a, p) of a one-dimensional array: element i comes from i - p,
\* wrapping around.
Roll(a, p) ==
    LET w == Len(a)
        k == IF p < 0 THEN 0 - p ELSE p
    IN  [i \in 1..w |-> a[((i - 1 - p + w * (k + 1)) % w) + 1]]

\* Lines 397-421 (and interactive_filters_v3.py lines 342-364, the same
\* statements): an image is here its h scanlines, each the w pixels
\* <<r, g, b>> of the scanline.  glsl_random(band, seed), the fractional part
\* of a sine, is not computed: a seed is given as the table of the values
\* glsl_random(band, seed) it leads to, band by band.
_filter_glitch(res, params, original) ==
    LET h == Len(res)
        w == Len(res[1])
    IN  [y \in 1..h |->
            LET rnd         == params.seed[BandOf(y - 1, h)]
                pixel_shift == PixelShift(rnd, params.amount, w)
                red         == Roll([x \in 1..w |-> original[y][x][1]], pixel_shift)
                blue        == Roll([x \in 1..w |-> original[y][x][3]], 0 - pixel_shift)
            IN  IF pixel_shift # 0
                THEN [x \in 1..w |-> <<red[x], res[y][x][2], blue[x]>>]
                ELSE res[y]]

\* The images given to the glitch effect: 21 scanlines of 4 pixels, so that
\* scanlines 0 and 1 share band 0, with channel values that differ along
\* every scanline.
GlitchH == 21
GlitchW == 4
Palette == <<F0, F025, FHalf, F1>>
GlitchImages ==
    {[y \in 1..GlitchH |->
        [x \in 1..GlitchW |->
            <<Palette[((x + k * y) % 4) + 1], Palette[((x + y + 1) % 4) + 1],
              Palette[((3 * x + y + k) % 4) + 1]>>]] : k \in 1..2}

\* Seeds: glsl_random gives a for band 0, b for the odd bands and 0.5 for
\* the other even bands.
Seeds ==
    {[band \in 0..19 |-> IF band = 0 THEN a ELSE IF band % 2 = 1 THEN b ELSE FHalf] :
        a \in {F0, FHalf, D09375}, b \in {F0, FHalf, F075}}
Amounts == {F1, F10}

\* One call of the glitch effect as apply_filter calls its handler, result
\* and original both copies of the image; interactive_filters_v3.py runs the
\* same statements (again).
Call_glitch(img, amount, seed) ==
    /\ call = NoCall
    /\ call' = [fn |-> "glitch", img |-> img,
                layers |-> <<[effect |-> "glitch",
                              params |-> [amount |-> amount, seed |-> seed],
                              opacity |-> F1, enabled |-> TRUE]>>,
                mask |-> NoMask, other |-> img, same |-> FALSE]
    /\ LET glitched == _filter_glitch(img, [amount |-> amount, seed |-> seed], img)
       IN  result' = [fn |-> "glitch", out |-> glitched, again |-> glitched]
    /\ UNCHANGED <<HAS_SERVER, shared, clock, pc, locals, invocations, ghosts, hist,
                   aux, ext>>

\* The layers of the stacks folded: brightness at opacity 0.3, brightness
\* disabled, invert at opacity 1 and emboss at opacity 0.3.
FoldLayers ==
    {[LayerOf("brightness") EXCEPT !.opacity = D03],
     [LayerOf("brightness") EXCEPT !.enabled = FALSE],
     LayerOf("invert"),
     [LayerOf("emboss") EXCEPT !.opacity = D03]}
FoldStacks == SeqsUpTo(FoldLayers, MaxLayers)

\* One call of apply_filter_stack, in interactive_filters.py (out) and in
\* interactive_filters_v3.py (again).
Call_stacks(img, layers) ==
    /\ call = NoCall
    /\ call' = [fn |-> "stacks", img |-> img, layers |-> layers,
                mask |-> NoMask, other |-> img, same |-> FALSE]
    /\ result' = [fn |-> "stacks",
                  out |-> apply_filter_stack(img, layers, NoDraws),
                  again |-> apply_filter_stack_v3(img, layers, NoDraws)]
    /\ UNCHANGED <<HAS_SERVER, shared, clock, pc, locals, invocations, ghosts, hist,
                   aux, ext>>

NextEffects ==
    \/ \E rgb \in RGBs : Call_rgb_to_hsv(rgb)
    \/ \E img \in EmbossImages, opacity \in Opacities : Call_emboss(img, opacity)
    \/ \E img \in Images, layers \in FoldStacks : Call_stacks(img, layers)
    \/ \E img \in GlitchImages, amount \in Amounts, seed \in Seeds :
          Call_glitch(img, amount, seed)
    \/ Return_call

SpecEffects == InitFilters /\ [][NextEffects]_vars

\* ------------------------------------------------------ the other routes
\* The value of PURZ_FILTER_LAYERS[node_id] after line 872.
Stored(layers) == [st |-> "stored", layers |-> layers]

\* The layer stacks the renderer sends to set_filter_layers.
SentStacks == {<<LayerOf("brightness"), LayerOf("invert")>>}

\* A route that, besides storing the stack, drops the node's ready flag.
set_filter_layers_PopsReady(n, layers) ==
    /\ HAS_SERVER
    /\ PURZ_FILTER_LAYERS' = [PURZ_FILTER_LAYERS EXCEPT ![n] = Stored(layers)]
    /\ PURZ_BATCH_READY' = [PURZ_BATCH_READY EXCEPT ![n] = "absent"]
    /\ UNCHANGED <<HAS_SERVER, PURZ_BATCH_ID, PURZ_BATCH_PENDING, PURZ_RENDERED_IMAGES,
                   clock, pc, locals, invocations, ghosts, hist, aux, reply, steps,
                   pure>>

\* Lines 861-878: the route stores the stack of the request under its node.
set_filter_layers(n, layers) ==
    /\ HAS_SERVER
    /\ PURZ_FILTER_LAYERS' = [PURZ_FILTER_LAYERS EXCEPT ![n] = Stored(layers)]
    /\ UNCHANGED <<HAS_SERVER, shared, clock, pc, locals, invocations, ghosts, hist,
                   aux, reply, steps, pure>>

\* A response that reports a batch as pending whatever the dictionary holds.
PendingReply_Always(n) ==
    [node |-> n, pending |-> TRUE, batch_size |-> PURZ_BATCH_PENDING[n]]

\* Lines 935 and 944-947: pending = PURZ_BATCH_PENDING.get(node_id, 0) and the
\* JSON response {"pending": pending > 0, "batch_size": pending}.
PendingReply(n) ==
    [node |-> n, pending |-> PURZ_BATCH_PENDING[n] > 0,
     batch_size |-> PURZ_BATCH_PENDING[n]]

\* Lines 927-949: the route answers from PURZ_BATCH_PENDING and writes nothing.
get_batch_pending(n) ==
    /\ HAS_SERVER
    /\ reply' = PendingReply(n)
    /\ UNCHANGED <<HAS_SERVER, shared, clock, pc, locals, invocations, ghosts, hist,
                   aux, PURZ_FILTER_LAYERS, steps, pure>>

\* ------------------------------------------------ two nodes side by side
\* Two nodes of one graph, each invoked from its own thread: node n1 with a
\* batch of one frame, node n2 with a batch of two.  The renderer delivers
\* each node's frames in one chunk, a decodable frame for n1 and two frames
\* for n2, the first of which does not decode.
NodeOf == [t \in Threads |-> IF t = "t1" THEN "n1" ELSE "n2"]
SizeOf == [n \in Nodes |-> IF n = "n1" THEN 1 ELSE 2]
FramesOf == [n \in Nodes |-> IF n = "n1" THEN <<"png">> ELSE <<"bad", "png">>]

\* The renderer sends layer stacks for n1 and asks for the pending batch of n2.
LayerNodes == {"n1"}
QueryNodes == {"n2"}

NextNodes ==
    \/ \E t \in Threads : Enter(t, NodeOf[t], SizeOf[NodeOf[t]])
    \/ \E t \in Threads : SetPending(t)
    \/ \E t \in Threads : SetReadyFalse(t)
    \/ \E t \in Threads : SetRenderedNone(t)
    \/ \E t \in Threads : Notify(t)
    \/ \E t \in Threads : Poll(t)
    \/ \E t \in Threads : CheckReady(t)
    \/ \E t \in Threads : ReadFrames(t)
    \/ \E t \in Threads : DecodeAll(t)
    \/ \E t \in Threads : PopPending(t)
    \/ \E t \in Threads : PopReady(t)
    \/ \E t \in Threads : PopRendered(t)
    \/ \E t \in Threads : Return(t)
    \/ \E n \in Nodes, is_final \in BOOLEAN :
          /\ PURZ_BATCH_ID[n] \in Sent(n)
          /\ set_rendered_batch(n, PURZ_BATCH_ID[n], FramesOf[n], 0, is_final)
    \/ \E n \in LayerNodes, layers \in SentStacks : set_filter_layers(n, layers)
    \/ \E n \in QueryNodes : get_batch_pending(n)

\* The routes exist: the server components were imported.
InitNodes == Init /\ HAS_SERVER

SpecNodes == InitNodes /\ [][NextNodes]_vars

\* ----------------------------- set_rendered_batch, statement by statement
\* The route runs on the server's event-loop thread, the invocation on the
\* prompt worker thread: no await follows line 889, so no other request is
\* handled in between, but the worker thread runs between any two
\* statements of the handler.  Its three accesses to the shared dictionaries
\* are three steps.

\* Lines 892-903: the request's fields, expected_batch_id = PURZ_BATCH_ID.get(
\* node_id, "") and the staleness test; a stale request is answered at once.
ReadExpected(n, b, frames, chunk_index, is_final) ==
    /\ HAS_SERVER
    /\ request = NoRequest
    /\ Len(PURZ_RENDERED_IMAGES[n].fr) + Len(frames) <= MaxBatch
    /\ IF StaleBatch(n, b)
       THEN UNCHANGED vars
       ELSE /\ request' = [pc |-> "L906", node |-> n, batch_id |-> b, frames |-> frames,
                           chunk_index |-> chunk_index, is_final |-> is_final]
            /\ UNCHANGED <<HAS_SERVER, shared, clock, pc, locals, invocations, ghosts,
                           hist, aux, PURZ_FILTER_LAYERS, reply, frames_by, ready_by,
                           pure>>

\* Lines 906-911: the write to PURZ_RENDERED_IMAGES[node_id].
WriteFrames ==
    /\ request.pc = "L906"
    /\ LET n == request.node
           entry == PURZ_RENDERED_IMAGES[n]
           new == Accumulate(entry, request.frames, request.chunk_index)
           same == SameObject(entry, request.chunk_index)
           tags == [k \in 1..Len(request.frames) |-> request.batch_id]
       IN  /\ PURZ_RENDERED_IMAGES' = [PURZ_RENDERED_IMAGES EXCEPT ![n] = new]
           /\ frames_by' = [frames_by EXCEPT ![n] = IF same THEN @ \o tags ELSE tags]
           /\ rendered_frames' = [t \in Threads |->
                   IF alias[t] /\ node_id[t] = n /\ same
                   THEN new ELSE rendered_frames[t]]
           /\ alias' = [t \in Threads |-> alias[t] /\ (node_id[t] = n => same)]
           /\ track' = [track EXCEPT ![n] =
                           Tracked(n, request.batch_id, request.frames,
                                   request.chunk_index, request.is_final)]
    /\ request' = [request EXCEPT !.pc = "L917"]
    /\ UNCHANGED <<HAS_SERVER, PURZ_BATCH_ID, PURZ_BATCH_PENDING, PURZ_BATCH_READY,
                   clock, pc, node_id, batch_size, batch_id, waited, output_image,
                   invocations, recorded, entered, loop_exit, outcome, hist, aux,
                   PURZ_FILTER_LAYERS, reply, ready_by, pure>>

\* Lines 917-921: PURZ_BATCH_READY[node_id] = True on a final chunk, and the
\* response.
WriteReady ==
    /\ request.pc = "L917"
    /\ LET n == request.node
       IN  /\ PURZ_BATCH_READY' =
                 [PURZ_BATCH_READY EXCEPT ![n] = ReadyAfter(@, request.is_final)]
           /\ ready_by' = [ready_by EXCEPT ![n] =
                               IF request.is_final THEN request.batch_id ELSE @]
           /\ final_seen' = [final_seen EXCEPT ![n] = @ \/ request.is_final]
    /\ request' = NoRequest
    /\ UNCHANGED <<HAS_SERVER, PURZ_BATCH_ID, PURZ_BATCH_PENDING, PURZ_RENDERED_IMAGES,
                   clock, pc, locals, invocations, ghosts, saw_final, aux,
                   PURZ_FILTER_LAYERS, reply, frames_by, pure>>

\* Batches of one and two frames, and chunks of one decodable frame tagged
\* with a batch id the renderer was told.
StepSizes == {1, 2}
StepFrames == {<<"png">>}

\* The invocations of one node, one after the other, and the renderer's
\* deliveries handled statement by statement.
NextSteps ==
    \/ \E t \in MainThreads, nid \in MainNodes, bs \in StepSizes : Enter(t, nid, bs)
    \/ \E t \in MainThreads : SetPending(t)
    \/ \E t \in MainThreads : SetReadyFalse(t)
    \/ \E t \in MainThreads : SetRenderedNone(t)
    \/ \E t \in MainThreads : Notify(t)
    \/ \E t \in MainThreads : Poll(t)
    \/ \E t \in MainThreads : CheckReady(t)
    \/ \E t \in MainThreads : ReadFrames(t)
    \/ \E t \in MainThreads : DecodeAll(t)
    \/ \E t \in MainThreads : PopPending(t)
    \/ \E t \in MainThreads : PopReady(t)
    \/ \E t \in MainThreads : PopRendered(t)
    \/ \E t \in MainThreads : Return(t)
    \/ \E n \in MainNodes, frames \in StepFrames, chunk_index \in ChunkIndexes,
          is_final \in BOOLEAN :
          \E b \in Sent(n) :
              ReadExpected(n, b, frames, chunk_index, is_final)
    \/ WriteFrames
    \/ WriteReady

SpecSteps == InitNodes /\ [][NextSteps]_vars

\* Two invocations of one node in flight at once (process called for the
\* same node id from two threads), each with a batch of one frame, and the
\* renderer's deliveries for the ids it was told, each in chunks of index 0.
OverlapSizes == {1}

NextOverlap ==
    \/ \E t \in Threads, nid \in MainNodes, bs \in OverlapSizes : Enter(t, nid, bs)
    \/ \E t \in Threads : SetPending(t)
    \/ \E t \in Threads : SetReadyFalse(t)
    \/ \E t \in Threads : SetRenderedNone(t)
    \/ \E t \in Threads : Notify(t)
    \/ \E t \in Threads : Poll(t)
    \/ \E t \in Threads : CheckReady(t)
    \/ \E t \in Threads : ReadFrames(t)
    \/ \E t \in Threads : DecodeAll(t)
    \/ \E t \in Threads : PopPending(t)
    \/ \E t \in Threads : PopReady(t)
    \/ \E t \in Threads : PopRendered(t)
    \/ \E t \in Threads : Return(t)
    \/ \E n \in MainNodes, frames \in StepFrames, is_final \in BOOLEAN :
          \E b \in Sent(n) :
              ReadExpected(n, b, frames, 0, is_final)
    \/ WriteFrames
    \/ WriteReady

SpecOverlap == InitNodes /\ [][NextOverlap]_vars

\* ------------------------------------------------- without the server
\* The process in which the server components could not be imported
\* (lines 24-30): no route is registered (line 817), so nothing is delivered
\* and nothing stores a stack.  PURZ_FILTER_LAYERS starts with the stacks a
\* caller of the module has put there, as line 872 would have.
InitAbsent ==
    /\ InitRecords
    /\ ~HAS_SERVER
    /\ PURZ_FILTER_LAYERS \in [Nodes -> {NoLayers} \cup {Stored(l) : l \in SentStacks}]

NextAbsent ==
    \/ \E t \in Threads, nid \in Nodes \cup {NoNode}, bs \in 1..MaxBatch : Enter(t, nid, bs)
    \/ \E t \in Threads : Return(t)

SpecAbsent == InitAbsent /\ [][NextAbsent]_vars

\* ------------------------------------------------------------- claims
\* No invocation of node n is in flight.
Quiet(n) == \A t \in Threads : pc[t] = "idle" \/ node_id[t] # n

\* Thread t is at its return statement, after the wait branch.
Returning(t) == pc[t] = "L760" /\ outcome[t] # "nowait"

\* C1 (as claimed): a chunk whose batchId differs from the batchId recorded
\* for its node is discarded: the response says it was not accepted, and
\* renderedFrames and ready stay as they were.
C1_StaleDiscarded ==
    [][\A n \in MainNodes, frames \in ChunkFrames, chunk_index \in ChunkIndexes,
          is_final \in BOOLEAN :
          \A b \in Sent(n) \cup {NoId} :
              ( /\ PURZ_BATCH_ID[n] # NoId
                /\ b # PURZ_BATCH_ID[n]
                /\ set_rendered_batch(n, b, frames, chunk_index, is_final) )
              => /\ ~Response(n, b, frames, chunk_index, is_final).success
                 /\ UNCHANGED <<PURZ_RENDERED_IMAGES, PURZ_BATCH_READY>>]_vars

\* C2: while an invocation waits, the chunks of its batch id accepted in
\* index order 0, 1, ... leave renderedFrames equal to the concatenation of
\* their frames in delivery order, and once the last of them is final ready
\* is true.
C2_InOrderConcatenation ==
    \A n \in MainNodes :
        Awaiting(n) =>
            /\ track[n].st \in {"open", "final"}
                  => PURZ_RENDERED_IMAGES[n] = List(track[n].cat)
            /\ track[n].st = "final" => PURZ_BATCH_READY[n] = "true"

\* C2 witness: a batch of 3 whose frames arrived as two chunks in index
\* order, the second one final: three frames, ready.
C2_Witness ==
    \E t \in Threads :
        /\ pc[t] = "L690"
        /\ batch_size[t] = 3
        /\ track[node_id[t]].st = "final"
        /\ track[node_id[t]].next = 2
        /\ Len(PURZ_RENDERED_IMAGES[node_id[t]].fr) = 3
        /\ PURZ_BATCH_READY[node_id[t]] = "true"

\* C3 (as claimed): an invocation whose wait loop ended because the ceiling
\* elapsed with ready unset returns the input batch.
C3_CeilingMeansInput ==
    \A t \in Threads :
        (Returning(t) /\ loop_exit[t] = "ceiling")
            => output_image[t] = InputBatch(batch_size[t])

\* C3 (amended): an invocation for which no final chunk had been accepted
\* when it checked ready after the wait (line 690) returns the input batch,
\* whatever frames non-final chunks have accumulated.
C3_TimeoutFallback ==
    \A t \in Threads :
        (pc[t] \in {"L691", "L703", "L724", "L725", "L726", "L760"}
            /\ outcome[t] # "nowait" /\ ~saw_final[t])
            => /\ pc[t] \notin {"L691", "L703"}
               /\ output_image[t] = InputBatch(batch_size[t])

\* C3 witness: an invocation of a batch of 2 whose wait reached the ceiling
\* with no final chunk accepted is about to return its input batch.
C3_Witness ==
    \E t \in Threads :
        /\ Returning(t)
        /\ outcome[t] = "timeout"
        /\ ~saw_final[t]
        /\ loop_exit[t] = "ceiling"
        /\ batch_size[t] = 2
        /\ output_image[t] = InputBatch(2)

\* C4 (as claimed): delivered frames are used only when their count equals
\* the batch size; on a mismatch the invocation returns the input batch.
C4_OnlyMatchingCountUsed ==
    \A t \in Threads :
        Returning(t) =>
            /\ outcome[t] = "mismatch" => output_image[t] = InputBatch(batch_size[t])
            /\ output_image[t].kind = "decoded" => output_image[t].n = batch_size[t]

\* C5 (as claimed): an invocation leaves its wait after at most
\* ceiling / poll interval polls of ready: 300 s at 100 ms, ten polls a
\* second.
C5_PollBound == polls <= max_wait * 10

\* C6 (as claimed): when an invocation that waited returns, pendingSize,
\* ready and renderedFrames of its node are cleared.
C6_CleanAtReturn ==
    \A t \in Threads :
        Returning(t) =>
            /\ PURZ_BATCH_PENDING[node_id[t]] = 0
            /\ PURZ_BATCH_READY[node_id[t]] = "absent"
            /\ PURZ_RENDERED_IMAGES[node_id[t]] = Absent

\* C7 (as claimed): while no invocation is in flight for a node, none of
\* batchId, pendingSize, ready, renderedFrames holds a value for it.
C7_RecordDestroyed ==
    \A n \in MainNodes :
        Quiet(n) =>
            /\ PURZ_BATCH_ID[n] = NoId
            /\ PURZ_BATCH_PENDING[n] = 0
            /\ PURZ_BATCH_READY[n] = "absent"
            /\ PURZ_RENDERED_IMAGES[n] = Absent

\* C7 (amended): while no invocation is in flight for a node, pendingSize
\* holds no value for it, and batchId holds no value before the node's first
\* invocation and a batch id recorded for the node ever after.
C7_PendingClearedIdKept ==
    \A n \in MainNodes :
        Quiet(n) =>
            /\ PURZ_BATCH_PENDING[n] = 0
            /\ entered[n] = 0 => PURZ_BATCH_ID[n] = NoId
            /\ entered[n] > 0 => PURZ_BATCH_ID[n] \in recorded[n]

\* C7 witness: an invocation of the node has completed and none is in flight.
C7_Witness ==
    \E n \in MainNodes :
        /\ Quiet(n)
        /\ entered[n] > 0
        /\ PURZ_BATCH_ID[n] # NoId
        /\ PURZ_BATCH_PENDING[n] = 0

\* C8: when a frame of a delivered batch of the right size does not decode,
\* the invocation goes on with the input batch; its output is always the
\* input batch or decoded frames alone.
C8_AllOrNothingDecode ==
    \A t \in Threads :
        /\ output_image[t].kind \in {"input", "decoded"}
        /\ outcome[t] = "decode_error" => output_image[t] = InputBatch(batch_size[t])

\* C8 witness: an invocation of a batch of 2 or more returns after a decode failure.
C8_Witness ==
    \E t \in Threads :
        /\ Returning(t)
        /\ outcome[t] = "decode_error"
        /\ batch_size[t] >= 2
        /\ output_image[t] = InputBatch(batch_size[t])

\* C9 (as claimed): the batch an invocation returns has as many frames as
\* its input batch, in every outcome.
C9_OutputShape ==
    \A t \in Threads :
        pc[t] = "L760" => output_image[t].n = batch_size[t]

\* C10: the batch ids recorded for a node by its invocations are pairwise
\* different: as many ids as invocations that entered the wait branch.
\* The invocations of a node follow one another, and the millisecond clock
\* moves on across the half-second sleep each of them makes; the random
\* salt is taken at its worst, the same every time.
C10_FreshBatchId ==
    \A n \in MainNodes : Cardinality(recorded[n]) = entered[n]

\* C10 witness: a second invocation of the same node has recorded its batch id.
C10_Witness ==
    \E n \in MainNodes, t \in Threads :
        /\ entered[n] = 2
        /\ node_id[t] = n
        /\ pc[t] = "L657"
        /\ Cardinality(recorded[n]) = 2

\* The input batch of n frames after apply_filter_stack with the layers.
FilteredBatch(n, layers) == [kind |-> "filtered", n |-> n, layers |-> layers]

Record(n) ==
    <<PURZ_BATCH_ID[n], PURZ_BATCH_PENDING[n], PURZ_BATCH_READY[n],
      PURZ_RENDERED_IMAGES[n], PURZ_FILTER_LAYERS[n]>>

\* What the invocations in flight on node n hold: their position and locals.
InFlightOn(n) ==
    [t \in {u \in Threads : node_id[u] = n} |->
        <<pc[t], batch_size[t], batch_id[t], waited[t], rendered_frames[t],
          output_image[t], loop_exit[t], outcome[t]>>]

\* A step of an operation performed for node n: a statement of an
\* invocation of n, a chunk delivered for n, a stack stored for n, a query
\* about n.
OperationFor(n) ==
    \/ \E t \in Threads : Enter(t, n, SizeOf[n])
    \/ \E t \in Threads :
          /\ node_id[t] = n
          /\ \/ SetPending(t)
             \/ SetReadyFalse(t)
             \/ SetRenderedNone(t)
             \/ Notify(t)
             \/ Poll(t)
             \/ CheckReady(t)
             \/ ReadFrames(t)
             \/ DecodeAll(t)
             \/ PopPending(t)
             \/ PopReady(t)
             \/ PopRendered(t)
             \/ Return(t)
    \/ \E is_final \in BOOLEAN :
          set_rendered_batch(n, PURZ_BATCH_ID[n], FramesOf[n], 0, is_final)
    \/ \E layers \in SentStacks : set_filter_layers(n, layers)
    \/ get_batch_pending(n)

\* C12: a step of an operation for node A (invocation reset, chunk delivery,
\* cleanup, setLayers, queryPending) leaves the record of every other node B
\* and the invocations in flight on B as they were; and an invocation holds
\* only the frames delivered for its own node, goes on to read them only
\* after a final chunk for its own node, and returns decoded frames only in
\* the number of its own batch.
C12_NodesIndependent ==
    /\ [][\A A \in Nodes : OperationFor(A) =>
             \A B \in Nodes \ {A} :
                 /\ Record(B)' = Record(B)
                 /\ InFlightOn(B)' = InFlightOn(B)]_vars
    /\ [](\A t \in Threads :
             /\ rendered_frames[t].st = "list"
                   => rendered_frames[t].fr = FramesOf[node_id[t]]
             /\ pc[t] \in {"L691", "L703"} => saw_final[t]
             /\ output_image[t].kind = "decoded"
                   => output_image[t].n = SizeOf[node_id[t]])

\* C12 witness: both nodes have an invocation in flight, each past its
\* reset, and a final chunk has been accepted for n1 alone: n1 is ready with
\* its frame, n2 is not and holds nothing.
C12_Witness ==
    /\ pc["t1"] = "L680"
    /\ pc["t2"] = "L680"
    /\ node_id["t1"] = "n1"
    /\ node_id["t2"] = "n2"
    /\ PURZ_BATCH_READY = [n \in Nodes |-> IF n = "n1" THEN "true" ELSE "false"]
    /\ PURZ_RENDERED_IMAGES["n1"] = List(FramesOf["n1"])
    /\ PURZ_RENDERED_IMAGES["n2"] = None

\* An invocation of node n has run line 657 and not yet line 724.
PendingSet(n) ==
    \E t \in Threads :
        /\ node_id[t] = n
        /\ pc[t] \in {"L658", "L659", "L664", "L680", "L690", "L691", "L703", "L724"}

\* C13: for a node whose invocations follow one another, get_batch_pending
\* answers pending = true with the batch size of the invocation in flight
\* exactly while that invocation is between line 657 of its reset and line
\* 724 of its cleanup, answers pending = false with batch size 0 at any
\* other time, and changes nothing but its response.
C13_QueryPending ==
    /\ [][\A n \in QueryNodes : get_batch_pending(n) =>
             /\ reply'.node = n
             /\ reply'.pending = PendingSet(n)
             /\ reply'.batch_size = (IF PendingSet(n) THEN SizeOf[n] ELSE 0)
             /\ \A m \in Nodes : Record(m)' = Record(m)
             /\ UNCHANGED <<pc, locals, invocations, clock>>]_vars
    /\ [](\A n \in Nodes :
             PURZ_BATCH_PENDING[n] = (IF PendingSet(n) THEN SizeOf[n] ELSE 0))

\* C13 witness: the query has answered pending = true with batch size 2
\* while the invocation of n2 waits in its loop.
C13_Witness ==
    /\ reply = [node |-> "n2", pending |-> TRUE, batch_size |-> 2]
    /\ pc["t2"] = "L680"
    /\ node_id["t2"] = "n2"
    /\ batch_size["t2"] = 2

\* The layers of a stack that are enabled, in their order.
EnabledOnly(layers) == SelectSeq(layers, LAMBDA l : l.enabled)

\* C14: a layer whose enabled flag is false is skipped: a stack gives the
\* result the stack without its disabled layers gives, and a stack of
\* disabled layers alone gives the input image.
C14_DisabledSkipped ==
    call.fn = "apply_filter_stack" =>
        /\ result.out = apply_filter_stack(call.img, EnabledOnly(call.layers), NoDraws)
        /\ EnabledOnly(call.layers) = <<>> => result.out = call.img

\* C14 witness: a stack with a disabled layer that would have changed the
\* image and an enabled layer that does change it has been applied.
C14_Witness ==
    /\ call.fn = "apply_filter_stack"
    /\ Len(call.layers) = 2
    /\ ~call.layers[1].enabled
    /\ call.layers[2].enabled
    /\ apply_filter(call.img, call.layers[1].effect, call.layers[1].params,
                    call.layers[1].opacity, FHalf) # call.img
    /\ result.out # call.img
    /\ result.out = apply_filter_stack(call.img, <<call.layers[2]>>, NoDraws)

\* The array the layer's effect gives for the image: the handler's result,
\* or the image itself for a name that is not in the registry (lines 574-578).
EffectResult(img, layer, draw) ==
    IF layer.effect \in FILTER_REGISTRY
    THEN Handler(layer.effect, img, layer.params, img, draw)
    ELSE img

\* C15 (as claimed): for every effect and parameter mapping, apply_filter
\* with opacity 0 gives the input image, and with opacity 1 the effect's own
\* result clipped to [0, 1].
C15_OpacityBoundary ==
    call.fn = "apply_filter" =>
        LET layer == call.layers[1]
        IN  /\ layer.opacity = F0 => result.out = call.img
            /\ layer.opacity = F1 =>
                  \E d \in Draws :
                      result.out = ClipCast(EffectResult(call.img, layer, d))

\* The layers of a stack whose effect is in the registry, in their order.
KnownOnly(layers) == SelectSeq(layers, LAMBDA l : l.effect \in FILTER_REGISTRY)

\* Every layer of the stack with an effect that is not in the registry has
\* opacity 0 or 1.
UnknownAtBoundary(layers) ==
    \A i \in 1..Len(layers) :
        layers[i].effect \notin FILTER_REGISTRY => layers[i].opacity \in {F0, F1}

\* 2^-23, two steps of the float32 values of [0.5, 1).
Tolerance == <<0, 0, 128, 0, 0>>

\* The finite values x and y differ by Tolerance at most.
Within(x, y) ==
    /\ x.k = "fin"
    /\ y.k = "fin"
    /\ IF LessEq(x.v, y.v) THEN LessEq(SubDigits(y.v, x.v), Tolerance)
                            ELSE LessEq(SubDigits(x.v, y.v), Tolerance)

\* C16 (as claimed): for an effect name that is not in the registry, the
\* empty name included, apply_filter returns the input image unchanged at
\* any opacity, and a stack with such a layer gives the result of the stack
\* without it.
C16_UnknownIsIdentity ==
    /\ (call.fn = "apply_filter" /\ call.layers[1].effect \notin FILTER_REGISTRY)
          => result.out = call.img
    /\ call.fn = "apply_filter_stack"
          => result.out = apply_filter_stack(call.img, KnownOnly(call.layers), NoDraws)

\* C16 (amended): for an effect name that is not in the registry
\* apply_filter returns an image (no error); at opacity 0 and at opacity 1
\* it is the input image exactly, at an opacity in between every channel
\* value is within 2^-23 of the input's; a stack whose layers with such
\* names have opacity 0 or 1 gives the result of the stack without them.
C16_UnknownNearIdentity ==
    /\ (call.fn = "apply_filter" /\ call.layers[1].effect \notin FILTER_REGISTRY)
          => /\ Len(result.out) = Len(call.img)
             /\ \A i \in 1..Len(call.img) : Within(result.out[i], call.img[i])
             /\ call.layers[1].opacity \in {F0, F1} => result.out = call.img
    /\ (call.fn = "apply_filter_stack" /\ UnknownAtBoundary(call.layers))
          => result.out = apply_filter_stack(call.img, KnownOnly(call.layers), NoDraws)

\* C16 witness: a name that is not in the registry has been applied at an
\* opacity strictly between 0 and 1 and the image returned is not the input.
C16_Witness ==
    /\ call.fn = "apply_filter"
    /\ call.layers[1].effect \notin FILTER_REGISTRY
    /\ call.layers[1].opacity \notin {F0, F1}
    /\ result.out # call.img
    /\ Within(result.out[1], call.img[1])

\* Every value of the mask is v.
AllOf(mask, v) == mask # NoMask /\ \A i \in 1..Len(mask) : mask[i] = v

C18_OrderSensitive ==
    /\ \E img \in Images :
          apply_filter_stack(img, <<LayerOf("brightness"), LayerOf("invert")>>, NoDraws)
            # apply_filter_stack(img, <<LayerOf("invert"), LayerOf("brightness")>>, NoDraws)
    /\ (/\ call.fn = "apply_filter_stack"
        /\ Len(call.layers) = 2
        /\ call.layers[1].enabled
        /\ call.layers[2].enabled)
          => result.out =
               apply_filter(apply_filter(call.img, call.layers[1].effect,
                                         call.layers[1].params, call.layers[1].opacity,
                                         NoDraws[1]),
                            call.layers[2].effect, call.layers[2].params,
                            call.layers[2].opacity, NoDraws[2])

\* C18 witness: brightness then invert has been applied to an image, and the
\* result is not the one invert then brightness gives for it.
C18_Witness ==
    /\ call.fn = "apply_filter_stack"
    /\ call.layers = <<LayerOf("brightness"), LayerOf("invert")>>
    /\ result.out # apply_filter_stack(call.img,
                                       <<LayerOf("invert"), LayerOf("brightness")>>,
                                       NoDraws)

\* C19 (as claimed): an effect of the registry applied twice to the same
\* pixels with the same parameters returns the same output both times.
C19_Deterministic ==
    call.fn = "apply_filter" => result.out = result.again

\* C20: posterize with levels = 2 at opacity 1 gives 0 for every channel
\* value below 0.5 and 1 for every value from 0.5 up to 1, 1 included.
C20_PosterizeBinary ==
    (/\ call.fn = "apply_filter"
     /\ call.layers[1].effect = "posterize"
     /\ call.layers[1].params.levels = 2
     /\ call.layers[1].opacity = F1)
      => \A i \in 1..Len(call.img) :
            /\ result.out[i] \in {F0, F1}
            /\ result.out[i] = F1 <=> LessEq(FHalf.v, call.img[i].v)

\* C20 witness: posterize with two levels at opacity 1 has taken 0.49 to 0.
C20_Witness ==
    /\ call.fn = "apply_filter"
    /\ call.layers[1].effect = "posterize"
    /\ call.layers[1].params.levels = 2
    /\ call.layers[1].opacity = F1
    /\ call.img = <<F049>>
    /\ result.out = <<F0>>

\* The batch ids of the node's invocations before the one thread t runs.
PreviousIds(t) == recorded[node_id[t]] \ {batch_id[t]}

\* C21 (as claimed): whatever the interleaving of the handler's statements
\* with an invocation's reset, when the invocation reads the node's frames
\* (line 691) none of them comes from a chunk tagged with the batch id of a
\* previous invocation, and the ready flag on which it leaves its wait loop
\* (line 680) was not set by such a chunk.
C21_NoStaleFrames ==
    [][\A t \in MainThreads :
          /\ (ReadFrames(t) /\ PURZ_RENDERED_IMAGES[node_id[t]].st = "list")
                => \A k \in 1..Len(frames_by[node_id[t]]) :
                       frames_by[node_id[t]][k] \notin PreviousIds(t)
          /\ (Poll(t) /\ loop_exit'[t] = "ready")
                => ready_by[node_id[t]] \notin PreviousIds(t)]_vars

\* C22 (as claimed): a chunk accepted while an invocation of its node waits
\* adds its frames after the frames accumulated so far, whatever its
\* chunk_index and whatever the order of arrival: nothing accepted earlier in
\* the invocation is removed or replaced.
C22_ChunksOnlyAppend ==
    [][\A n \in MainNodes, frames \in ChunkFrames, chunk_index \in ChunkIndexes,
          is_final \in BOOLEAN :
          \A b \in Sent(n) \cup {NoId} :
              (/\ set_rendered_batch(n, b, frames, chunk_index, is_final)
               /\ ~StaleBatch(n, b)
               /\ Awaiting(n))
                => PURZ_RENDERED_IMAGES'[n] = List(PURZ_RENDERED_IMAGES[n].fr \o frames)]_vars

\* Thread t is between line 658 of its reset and line 725 of its cleanup.
ResetToCleanup(t) ==
    pc[t] \in {"L659", "L664", "L680", "L690", "L691", "L703", "L724", "L725"}

\* C23: the reset writes ready = False and frames = None before the wait
\* loop; while an invocation is between that reset and its cleanup, ready is
\* True only if a final chunk has been accepted (has passed the test of line
\* 899, which after line 656 only the invocation's own id passes) since the
\* reset; an accepted chunk that is not final leaves ready as it was; and
\* ready, once True, stays True until the cleanup pops it.
C23_ReadyOnlyByFinal ==
    /\ [](\A t \in MainThreads :
             (ResetToCleanup(t) /\ PURZ_BATCH_READY[node_id[t]] = "true")
               => /\ final_seen[node_id[t]]
                  /\ ready_by[node_id[t]] = batch_id[t])
    /\ [][\A t \in MainThreads :
             /\ SetReadyFalse(t) => PURZ_BATCH_READY'[node_id[t]] = "false"
             /\ SetRenderedNone(t) => PURZ_RENDERED_IMAGES'[node_id[t]] = None
             /\ (/\ ResetToCleanup(t)
                 /\ PURZ_BATCH_READY[node_id[t]] = "true"
                 /\ PURZ_BATCH_READY'[node_id[t]] # "true") => PopReady(t)]_vars
    /\ [][(WriteReady /\ ~request.is_final)
             => PURZ_BATCH_READY'[request.node] = PURZ_BATCH_READY[request.node]]_vars

\* C24: a chunk tagged with the id of an invocation of the node that has
\* already returned is harmless to the next invocation: the frames that
\* invocation is about to decode hold none that came with such a chunk, and
\* an invocation that left its wait loop on the ready flag did not leave it
\* on a flag such a chunk raised.
C24_LateChunkHarmless ==
    \A t \in MainThreads :
        /\ (pc[t] = "L703" /\ alias[t])
              => \A k \in 1..Len(frames_by[node_id[t]]) :
                     frames_by[node_id[t]][k] \notin PreviousIds(t)
        /\ (pc[t] = "L690" /\ loop_exit[t] = "ready")
              => ready_by[node_id[t]] \notin PreviousIds(t)

\* Another invocation of t's node is in flight on thread u.
Overlapping(t, u) ==
    u # t /\ pc[t] # "idle" /\ pc[u] # "idle" /\ node_id[u] = node_id[t]

\* C25: when two invocations of one node overlap, an invocation leaves its
\* wait loop on the ready flag only if a chunk tagged with its own batch id
\* raised it, takes frames to decode only if they all came in chunks tagged
\* with its own batch id, and its cleanup does not pop a raised flag or
\* frames that were delivered for the other invocation.
C25_OverlapKeepsOwn ==
    [][\A t \in Threads :
          /\ (Poll(t) /\ loop_exit'[t] = "ready")
                => ready_by[node_id[t]] = batch_id[t]
          /\ (ReadFrames(t) /\ pc'[t] = "L703")
                => \A k \in 1..Len(frames_by[node_id[t]]) :
                       frames_by[node_id[t]][k] = batch_id[t]
          /\ \A u \in Threads :
                (/\ Overlapping(t, u)
                 /\ PopReady(t)
                 /\ PURZ_BATCH_READY[node_id[t]] = "true")
                  => ready_by[node_id[t]] # batch_id[u]]_vars

\* C30: set_filter_layers(n, layers) replaces the stack stored for n and
\* nothing else: the batch id, the pending size, the ready flag and the
\* rendered frames of every node, the stacks of the other nodes and the
\* invocations in flight stay as they were; and an invocation that decoded a
\* complete delivery outputs the frames delivered, in the number of its
\* batch, whether or not a stack is stored for its node.
C30_SetLayersApart ==
    /\ [][\A n \in LayerNodes, layers \in SentStacks :
             set_filter_layers(n, layers)
               => /\ PURZ_FILTER_LAYERS'[n] = Stored(layers)
                  /\ \A m \in Nodes \ {n} : PURZ_FILTER_LAYERS'[m] = PURZ_FILTER_LAYERS[m]
                  /\ shared' = shared
                  /\ \A m \in Nodes : InFlightOn(m)' = InFlightOn(m)]_vars
    /\ [](\A t \in Threads :
             outcome[t] = "decoded"
               => output_image[t] = DecodedBatch(Len(FramesOf[node_id[t]])))

\* C30 witness: a stack was stored for n1 and the invocation of n1 has
\* decoded the complete delivery of its batch.
C30_Witness ==
    /\ PURZ_FILTER_LAYERS["n1"].st = "stored"
    /\ node_id["t1"] = "n1"
    /\ pc["t1"] = "L724"
    /\ outcome["t1"] = "decoded"
    /\ output_image["t1"] = DecodedBatch(1)

\* The hue of the first case that matches, in the order red, green, blue.
FirstMatchHue(rgb) ==
    LET r     == rgb[1]
        g     == rgb[2]
        b     == rgb[3]
        maxc  == Max32(Max32(r, g), b)
        delta == Sub32(maxc, Min32(Min32(r, g), b))
        h     == IF ~Less32(F0, delta) THEN F0
                 ELSE IF maxc = r THEN Mod6(Ratio(g, b, delta))
                 ELSE IF maxc = g THEN PlusInt(Ratio(b, r, delta), F2)
                 ELSE PlusInt(Ratio(r, g, delta), F4)
    IN  Div32(h, F6)

\* C29: for every pixel with channels in [0, 1] the hue that
\* rgb_to_hsv_vectorized returns is at least 0 and below 1, is 0 when the
\* three channels are equal, and is the hue of the first case that matches
\* in the order red, green, blue.
C29_HueRange ==
    result.fn = "rgb_to_hsv"
      => /\ result.out[1].k = "fin"
         /\ Less32(result.out[1], F1)
         /\ (call.img[1] = call.img[2] /\ call.img[2] = call.img[3])
               => result.out[1] = F0
         /\ result.out[1] = FirstMatchHue(call.img)

\* clip(I * (1 - o) + E * o), in float32, value by value.
BlendOnce(I, E, o) ==
    [i \in 1..Len(I) |->
        Cast32(Clip01(Add32(Mul32(I[i], Cast32(OneMinus(o))), Mul32(E[i], Cast32(o)))))]

\* C28: for the emboss effect and every opacity o, apply_filter returns
\* clip(I * (1 - o) + emboss(I) * o), the opacity applied once, and the
\* apply_filter of interactive_filters_v3.py, which blends inside its emboss
\* branch, returns the same image as the one of interactive_filters.py.
C28_EmbossOpacityOnce ==
    result.fn = "emboss"
      => /\ result.out =
               BlendOnce(call.img,
                         _filter_emboss(call.img, call.layers[1].params, call.img, FHalf),
                         call.layers[1].opacity)
         /\ result.again = result.out

\* C28 witness: emboss was applied at opacity 0.3 to an image whose middle
\* pixel it changes: the result differs from the input and from the
\* embossed image.
C28_Witness ==
    /\ result.fn = "emboss"
    /\ call.layers[1].opacity = D03
    /\ result.out[5] # call.img[5]
    /\ result.out[5] #
          _filter_emboss(call.img, call.layers[1].params, call.img, FHalf)[5]
    /\ result.again = result.out

\* The output of one layer given the image prev: the effect applied to prev
\* with prev as its reference, blended with opacity against prev, clipped.
LayerOutput(prev, layer) ==
    LET known == layer.effect \in FILTER_REGISTRY
        res   == IF known THEN Handler(layer.effect, prev, layer.params, prev, FHalf)
                 ELSE prev
    IN  ClipCast(Blend(prev, res, layer.opacity,
                       IF known THEN ResultBits(layer.effect) ELSE 24))

RECURSIVE FoldTo(_, _, _)
\* The image after the first k of the layers, each given the output of the
\* one before it.
FoldTo(img, layers, k) ==
    IF k = 0 THEN img ELSE LayerOutput(FoldTo(img, layers, k - 1), layers[k])

\* C26: apply_filter_stack takes the enabled layers in the order of the
\* list; the image given to a layer is the blended, clipped output of the
\* layer before it, and that image, not the input of the stack, is the
\* reference of the layer's effect and the base of its opacity blend; in
\* interactive_filters.py and in interactive_filters_v3.py alike.
C26_LayerFold ==
    result.fn = "stacks"
      => /\ result.out = FoldTo(call.img, EnabledOnly(call.layers),
                                Len(EnabledOnly(call.layers)))
         /\ result.again = result.out

\* C26 witness: a stack of two enabled layers was applied, the first changed
\* the image and the second has opacity 0.3: the result is not the one a
\* blend against the stack's input gives.
C26_Witness ==
    /\ result.fn = "stacks"
    /\ Len(call.layers) = 2
    /\ call.layers[1].enabled
    /\ call.layers[2].enabled
    /\ call.layers[2].opacity = D03
    /\ LayerOutput(call.img, call.layers[1]) # call.img
    /\ LET first == LayerOutput(call.img, call.layers[1])
           last  == call.layers[2]
       IN  result.out #
             ClipCast(Blend(call.img,
                            Handler(last.effect, first, last.params, call.img, FHalf),
                            last.opacity, ResultBits(last.effect)))

\* Column i, counted from 0, wrapped into 0..w-1.
Wrap(i, w) == ((i % w) + w) % w

\* C27: on every scanline the green channel is the input's; on a scanline
\* whose pixel shift p is not 0 the red value of column x is found at column
\* x + p and the blue value of column x at column x - p, wrapping around the
\* scanline; a scanline with p = 0 is the input's; and two scanlines of the
\* same of the 20 bands (the whole part of 20 * y / h) have the same p.
C27_GlitchShift ==
    result.fn = "glitch"
      => LET img == call.img
             h   == Len(img)
             w   == Len(img[1])
             par == call.layers[1].params
             p(y) == PixelShift(par.seed[BandOf(y - 1, h)], par.amount, w)
         IN  /\ \A y \in 1..h :
                   LET py == p(y)
                   IN  \A x \in 1..w :
                         /\ result.out[y][x][2] = img[y][x][2]
                         /\ py # 0 =>
                               /\ result.out[y][Wrap(x - 1 + py, w) + 1][1] = img[y][x][1]
                               /\ result.out[y][Wrap(x - 1 - py, w) + 1][3] = img[y][x][3]
                         /\ py = 0 => result.out[y][x] = img[y][x]
             /\ \A y1 \in 1..h, y2 \in 1..h :
                   (20 * (y1 - 1)) \div h = (20 * (y2 - 1)) \div h => p(y1) = p(y2)
             /\ result.again = result.out

\* C27 witness: the two scanlines of band 0 were shifted by 5 pixels, more
\* than the scanline's width, and both changed, while the third scanline,
\* of band 1, has p = 0 and is the input's.
C27_Witness ==
    /\ result.fn = "glitch"
    /\ PixelShift(call.layers[1].params.seed[0], call.layers[1].params.amount,
                  Len(call.img[1])) = 5
    /\ PixelShift(call.layers[1].params.seed[1], call.layers[1].params.amount,
                  Len(call.img[1])) = 0
    /\ result.out[1] # call.img[1]
    /\ result.out[2] # call.img[2]
    /\ result.out[3] = call.img[3]

====
